---- MODULE Spec2Model ----
(***************************************************************************)
(* The controller of the dataflow database (src/src/controller/inner.rs,   *)
(* src/src/controller/domain_handle.rs) and the staging planner            *)
(* (src/planner/src/lib.rs) as state machines.                             *)
(*                                                                         *)
(* Node indices are 1-based: node 1 is the source node.  Time is kept as   *)
(* elapsed durations: where the code stores an Instant and later reads     *)
(* Instant::elapsed(), the model stores the elapsed time itself, advanced  *)
(* by Tick and saturated one unit above the largest threshold the code     *)
(* compares it with (beyond that point no comparison can tell two values   *)
(* apart).                                                                 *)
(***************************************************************************)
EXTENDS Integers, Sequences, FiniteSets, TLC

VARIABLES
    self,       \* the ControllerInner value (its fields, see ControllerInner_new)
    authority,  \* the ControllerState stored in the authority under STATE_KEY
    wstate,     \* environment: each worker process, "idle" | "running" | "crashed" | "hung"
    call,       \* the handler that ran last, with its input and the state it started from
    ret,        \* what that handler returned
    plan,       \* planner crate: the DataflowGraph and the Plan borrowed from it
    dom,        \* dataflow: a source domain, a destination domain and their channels
    boot        \* DomainHandle::new: a domain being booted on the workers

vars == <<self, authority, wstate, call, ret, plan, dom, boot>>

----------------------------------------------------------------------------
(* Bounds of the model *)

MaxWorkers == 2
MaxVersion == 2
MaxRecipes == 2
MaxNodes == 7
MaxPlanNodes == 3
MaxRemoved == 3
MaxWrites == 2
MaxDeltas == 2
MaxEvicts == 1
MaxEpoch == 2
MaxReads == 2
MaxBytes == 2
MaxShards == 3

Workers == 1..MaxWorkers

(* Configuration the controller is constructed with *)
heartbeat_every == 1
healthcheck_every == 1
quorum == 1
epoch == 1

----------------------------------------------------------------------------
(* Generic helpers *)

RECURSIVE SetToSeqDesc(_)
SetToSeqDesc(S) ==
    IF S = {} THEN <<>>
    ELSE LET m == CHOOSE x \in S : \A y \in S : y <= x
         IN <<m>> \o SetToSeqDesc(S \ {m})

RECURSIVE SetToSeqAsc(_)
SetToSeqAsc(S) ==
    IF S = {} THEN <<>>
    ELSE LET m == CHOOSE x \in S : \A y \in S : x <= y
         IN <<m>> \o SetToSeqAsc(S \ {m})

Range(s) == {s[i] : i \in 1..Len(s)}

Reverse(s) == [i \in 1..Len(s) |-> s[Len(s) + 1 - i]]

SelectIn(s, S) == SelectSeq(s, LAMBDA x : x \in S)

\* let x = v; K(x): v is computed once and K continues with its value
Let(v, K(_)) == CHOOSE r \in {K(x) : x \in {v}} : TRUE

----------------------------------------------------------------------------
(* The dataflow graph: petgraph::Graph<Node, Edge> *)

source == 1

SourceNode == [kind |-> "source", name |-> "source", domain |-> 0, dropped |-> FALSE, for |-> 0]

NodeIndices(g) == 1..Len(g.nodes)

\* neighbors_directed(n, Outgoing) / (n, Incoming): petgraph walks the edge
\* list of a node from the edge added last to the edge added first; edges to
\* a node are added in the order of the nodes, hence descending indices.
Outgoing(g, n) == SetToSeqDesc({e[2] : e \in {x \in g.edges : x[1] = n}})
Incoming(g, n) == SetToSeqDesc({e[1] : e \in {x \in g.edges : x[2] = n}})

\* Node::remove turns the node into a dropped node: it stays in the graph and
\* is neither a base nor a reader any more.
is_dropped(g, n) == g.nodes[n].dropped
is_base(g, n) == g.nodes[n].kind = "base" /\ ~g.nodes[n].dropped
is_source(g, n) == g.nodes[n].kind = "source"
is_reader(g, n) == g.nodes[n].kind = "reader" /\ ~g.nodes[n].dropped
Node_remove(g, n) == [g EXCEPT !.nodes[n].dropped = TRUE]

add_node(g, nd) == [g EXCEPT !.nodes = Append(@, nd)]
add_edge(g, p, c) == [g EXCEPT !.edges = @ \cup {<<p, c>>}]
remove_edge(g, p, c) == [g EXCEPT !.edges = @ \ {<<p, c>>}]

\* petgraph::visit::Topo: a stack of the nodes all of whose parents were
\* visited, seeded with the nodes that have no incoming edge.
RECURSIVE TopoWalk(_, _, _)
TopoWalk(g, tovisit, ordered) ==
    IF tovisit = <<>> THEN ordered
    ELSE LET nix == tovisit[Len(tovisit)]
             rest == SubSeq(tovisit, 1, Len(tovisit) - 1)
         IN IF nix \in Range(ordered) THEN TopoWalk(g, rest, ordered)
            ELSE LET done == Range(ordered) \cup {nix}
                     ready == SelectSeq(Outgoing(g, nix),
                                 LAMBDA c : Range(Incoming(g, c)) \subseteq done)
                 IN TopoWalk(g, rest \o ready, Append(ordered, nix))

Topo(g) ==
    TopoWalk(g, SetToSeqAsc({n \in NodeIndices(g) : Incoming(g, n) = <<>>}), <<>>)

----------------------------------------------------------------------------
(* The recipe compiler (Recipe, SqlIncorporator).  A recipe text is a list  *)
(* of statements of a small catalogue: the table A, the query q1 over A and *)
(* the query q2 over q1; "?" is text the parser rejects.                    *)

Catalogue == <<"A", "q1", "q2">>
StmtSet == Range(Catalogue)
IsTable(q) == q = "A"
Dep(q) == IF q = "q1" THEN "A" ELSE "q1"

Texts == { <<>>, <<"q1">>, <<"q2">>, <<"A", "q1">>, <<"A", "q2">>, <<"A", "q1", "q2">>,
           <<"?">>, <<"!">> }

NoInc == [q \in StmtSet |-> 0]

Recipe_blank == [version |-> 0, expressions |-> {}, inc |-> NoInc, prior |-> <<>>]

Recipe_version(r) == r.version

\* Recipe::from_str: the statements of the text, or an error
Recipe_from_str(text) ==
    IF \E i \in 1..Len(text) : text[i] \notin StmtSet
    THEN [ok |-> FALSE,
          e |-> "parse error at " \o
                text[CHOOSE i \in 1..Len(text) :
                        /\ text[i] \notin StmtSet
                        /\ \A j \in 1..(i - 1) : text[j] \in StmtSet]]
    ELSE [ok |-> TRUE,
          r |-> [version |-> 0, expressions |-> Range(text), inc |-> NoInc, prior |-> <<>>]]

\* Recipe::extend: Ok(new) with the statements appended, the version one up and
\* the old recipe as prior; Err((old, e)) hands the old recipe back
Recipe_extend(r, text) ==
    LET p == Recipe_from_str(text)
    IN IF ~p.ok THEN [ok |-> FALSE, old |-> r, e |-> p.e]
       ELSE [ok |-> TRUE,
             new |-> [version |-> r.version + 1,
                      expressions |-> r.expressions \cup p.r.expressions,
                      inc |-> r.inc,
                      prior |-> <<r>>]]

\* Recipe::replace: the new recipe takes the place of the old one
Recipe_replace(old, r) ==
    [r EXCEPT !.version = old.version + 1, !.inc = old.inc, !.prior = <<old>>]

\* Recipe::revert: back to the prior recipe; a recipe without prior reverts to blank
Recipe_revert(r) == IF r.prior # <<>> THEN r.prior[1] ELSE Recipe_blank

Recipe_prior(r) == IF r.prior # <<>> THEN r.prior[1] ELSE Recipe_blank

\* SqlIncorporator::is_leaf_address
is_leaf_address(r, n) == \E q \in StmtSet : r.inc[q] = n

\* Recipe::queries_for_nodes: the statements that own one of the nodes
queries_for_nodes(r, g, nodes) ==
    {q \in r.expressions : \E i \in 1..Len(nodes) : g.nodes[nodes[i]].name = q}

\* Recipe::make_recovery: (the recipe without the affected queries, one version
\* up and with the current recipe as prior; the current recipe two versions up)
make_recovery(r, affected) ==
    [recovery |-> [r EXCEPT !.version = r.version + 1,
                            !.expressions = @ \ affected,
                            !.prior = <<r>>],
     original |-> [r EXCEPT !.version = r.version + 2]]

\* One added statement: a table becomes a base below the source; a query
\* becomes a node below the leaf of the relation it reads, with its reader.
\* A query over a relation the incorporator does not know fails.
add_parsed_query(st, q) ==
    LET g == st.g
        n == Len(g.nodes) + 1
    IN IF ~st.ok THEN st
       ELSE IF IsTable(q) THEN
            [st EXCEPT !.g = add_edge(add_node(g,
                                [kind |-> "base", name |-> q, domain |-> 0,
                                 dropped |-> FALSE, for |-> 0]), source, n),
                       !.inc[q] = n,
                       !.added = Append(@, n)]
       ELSE IF st.inc[Dep(q)] = 0 THEN
            [st EXCEPT !.ok = FALSE, !.e = "unresolvable dependency " \o Dep(q)]
       ELSE [st EXCEPT !.g = add_edge(add_edge(add_node(add_node(g,
                                [kind |-> "internal", name |-> q, domain |-> 0,
                                 dropped |-> FALSE, for |-> 0]),
                                [kind |-> "reader", name |-> q, domain |-> 0,
                                 dropped |-> FALSE, for |-> n]),
                                st.inc[Dep(q)], n), n, n + 1),
                       !.inc[q] = n,
                       !.added = Append(@, n) \o <<n + 1>>]

RECURSIVE add_queries(_, _)
add_queries(st, qs) ==
    IF qs = <<>> THEN st ELSE add_queries(add_parsed_query(st, qs[1]), Tail(qs))

\* Recipe::activate(mig): the statements added since the prior recipe are put
\* into the migration in the order of the text, the leaves of the removed
\* ones are reported.  An error leaves what was added before it in the migration.
Recipe_activate(new, mig) ==
    LET pr == Recipe_prior(new)
        added == SelectIn(Catalogue, new.expressions \ pr.expressions)
        removed == SelectIn(Catalogue, pr.expressions \ new.expressions)
        st == add_queries([ok |-> TRUE, e |-> "", g |-> mig.ingredients,
                           inc |-> new.inc, added |-> mig.added], added)
        leaves == [i \in 1..Len(removed) |-> st.inc[removed[i]]]
    IN [mig |-> [mig EXCEPT !.ingredients = st.g, !.added = st.added],
        new |-> [new EXCEPT !.inc = IF st.ok
                                    THEN [q \in StmtSet |->
                                            IF q \in Range(removed) THEN 0 ELSE st.inc[q]]
                                    ELSE st.inc],
        ok |-> st.ok,
        e |-> st.e,
        removed_leaves |-> IF st.ok THEN SelectSeq(leaves, LAMBDA n : n # 0) ELSE <<>>]

----------------------------------------------------------------------------
(* ControllerInner.  The fields of the record `self`:                       *)
(*   ingredients, ndomains, domains, recipe, workers, pending_recovery,     *)
(*   last_checked_workers as in the struct (domains: index -> the workers   *)
(*   of its shards; workers: identifier -> WorkerStatus),                   *)
(*   status: "running", or "panic: <message>" / "blocked" once a handler    *)
(*           has panicked or waits for a worker that never answers,         *)
(*   log:    what the handler running last did, in order (the migrations    *)
(*           it ran, the remove_nodes calls it made, the packets it sent).  *)

Running(s) == s.status = "running"

Panic(s, why) == IF Running(s) THEN [s EXCEPT !.status = "panic: " \o why] ELSE s

Block(s) == IF Running(s) THEN [s EXCEPT !.status = "blocked"] ELSE s

Log(s, ev) == [s EXCEPT !.log = Append(@, ev)]

HealthyWorkers(s) == {w \in DOMAIN s.workers : s.workers[w].healthy}

\* DomainHandle::send_to_healthy: the shards in order; a shard on a worker
\* marked failed ends the loop with the "worker failed" broken pipe, a send
\* the transport refuses ends it with that io error.
RECURSIVE send_shards(_, _, _, _, _)
send_shards(s, d, p, i, sent) ==
    LET shards == s.domains[d]
    IN IF i > Len(shards) THEN [res |-> "Ok", sent |-> sent]
       ELSE IF s.workers[shards[i]].healthy
            THEN IF wstate[shards[i]] = "crashed"
                 THEN [res |-> "io error", sent |-> sent]
                 ELSE send_shards(s, d, p, i + 1,
                                  Append(sent, [type |-> "send", domain |-> d, shard |-> i,
                                                packet |-> p]))
            ELSE [res |-> "worker failed", sent |-> sent]

send_to_healthy(s, d, p) == send_shards(s, d, p, 1, <<>>)

RemoveNodes(s, d, removals) ==
    [type |-> "RemoveNodes",
     nodes |-> SelectSeq(removals, LAMBDA n : s.ingredients.nodes[n].domain = d)]

RECURSIVE notify_domains_strict(_, _, _)
notify_domains_strict(s, ds, removals) ==
    IF ds = <<>> \/ ~Running(s) THEN s
    ELSE IF ds[1] \notin DOMAIN s.domains THEN Panic(s, "unwrap")
    ELSE LET r == send_to_healthy(s, ds[1], RemoveNodes(s, ds[1], removals))
             s1 == [s EXCEPT !.log = @ \o r.sent]
         IN IF r.res = "Ok"
            THEN notify_domains_strict(s1, Tail(ds), removals)
            ELSE Panic(s1, "failed to remove nodes")

\* remove_nodes, second loop: one RemoveNodes packet per domain; the error
\* of a send to a worker marked failed is ignored, any other error panics
RECURSIVE notify_domains(_, _, _)
notify_domains(s, ds, removals) ==
    IF ds = <<>> \/ ~Running(s) THEN s
    ELSE IF ds[1] \notin DOMAIN s.domains THEN Panic(s, "unwrap")
    ELSE LET r == send_to_healthy(s, ds[1], RemoveNodes(s, ds[1], removals))
             s1 == [s EXCEPT !.log = @ \o r.sent]
         IN IF r.res \in {"Ok", "worker failed"}
            THEN notify_domains(s1, Tail(ds), removals)
            ELSE Panic(s1, "failed to remove nodes")

RECURSIVE mark_removed(_, _)
mark_removed(g, removals) ==
    IF removals = <<>> THEN g
    ELSE mark_removed(Node_remove(g, removals[1]), Tail(removals))

remove_nodes(s, removals) ==
    IF ~Running(s) THEN s
    ELSE LET g == mark_removed(s.ingredients, removals)
             ds == SetToSeqAsc({g.nodes[n].domain : n \in Range(removals)})
             s1 == Log([s EXCEPT !.ingredients = g],
                       [type |-> "remove_nodes", nodes |-> removals])
         IN notify_domains(s1, ds, removals)

RECURSIVE cut_parents_eager(_, _, _, _, _, _)
cut_parents_eager(g, r, start, node, parents, nodes) ==
    IF parents = <<>> THEN [g |-> g, nodes |-> nodes]
    ELSE LET parent == parents[1]
             g1 == remove_edge(g, parent, node)
             push == /\ ~is_source(g1, parent)
                     /\ ~is_base(g1, parent)
                     /\ (parent = start \/ ~is_leaf_address(r, parent))
         IN cut_parents_eager(g1, r, start, node, Tail(parents),
                              IF push THEN Append(nodes, parent) ELSE nodes)

\* remove_leaf, the loop over the parents of one node of the work list
RECURSIVE cut_parents(_, _, _, _, _, _)
cut_parents(g, r, start, node, parents, nodes) ==
    IF parents = <<>> THEN [g |-> g, nodes |-> nodes]
    ELSE LET parent == parents[1]
             g1 == remove_edge(g, parent, node)
             push == /\ ~is_source(g1, parent)
                     /\ ~is_base(g1, parent)
                     /\ (parent = start \/ ~is_leaf_address(r, parent))
                     /\ Outgoing(g1, parent) = <<>>
         IN cut_parents(g1, r, start, node, Tail(parents),
                        IF push THEN Append(nodes, parent) ELSE nodes)

RECURSIVE remove_walk(_, _, _, _, _)
remove_walk(g, r, start, nodes, removals) ==
    IF nodes = <<>> THEN [g |-> g, removals |-> removals]
    ELSE LET node == nodes[Len(nodes)]
             rest == SubSeq(nodes, 1, Len(nodes) - 1)
             c == cut_parents(g, r, start, node, Incoming(g, node), rest)
         IN remove_walk(c.g, r, start, c.nodes, Append(removals, node))

remove_leaf(s, start) ==
    IF ~Running(s) THEN s
    ELSE LET g == s.ingredients
             children == Outgoing(g, start)
             readers == SelectSeq(children, LAMBDA n : is_reader(g, n))
             has_non_reader_children == \E n \in Range(children) : ~is_reader(g, n)
             s0 == Log(s, [type |-> "remove_leaf", leaf |-> start])
         IN IF is_source(g, start) THEN Panic(s0, "assertion failed")
            ELSE IF children # <<>> /\ has_non_reader_children
                 THEN Panic(s0, "unreachable")
            ELSE IF children # <<>> /\ Len(readers) > 1
                 THEN Panic(s0, "assertion failed")
            ELSE LET leaf == IF children # <<>> THEN readers[1] ELSE start
                     removals0 == IF children # <<>> THEN <<readers[1]>> ELSE <<>>
                 IN IF Outgoing(g, leaf) # <<>> THEN Panic(s0, "assertion failed")
                    ELSE LET w == remove_walk(g, s.recipe, start, <<leaf>>, removals0)
                         IN remove_nodes([s0 EXCEPT !.ingredients = w.g], w.removals)

----------------------------------------------------------------------------
(* Migrations *)

\* Migration { mainline, added, .. }: what a migration has put into the graph
Migration_new(s) == [ingredients |-> s.ingredients, added |-> <<>>]

\* num_shards.unwrap_or(1), with the sharding the controller is configured with
num_shards(s) == IF s.sharding = 0 THEN 1 ELSE s.sharding

\* DomainHandle::new: the placer hands out the healthy workers round-robin,
\* one for each shard of the domain.  A worker process that is gone refuses
\* the AssignDomain message (the unwrap of the send panics); one that hangs
\* never answers Booted.
RECURSIVE boot_domains(_, _, _, _)
boot_domains(s, names, wis, k) ==
    IF names = <<>> \/ ~Running(s) THEN s
    ELSE IF wis = <<>> THEN Panic(s, "no workers available to place domain on!")
    ELSE LET ns == num_shards(s)
             ws == [i \in 1..ns |-> wis[((k + i - 1) % Len(wis)) + 1]]
             d == s.ndomains + 1
             g == [s.ingredients EXCEPT !.nodes =
                     [n \in DOMAIN @ |->
                        IF @[n].domain = 0 /\ @[n].name = names[1] /\ n # source
                        THEN [@[n] EXCEPT !.domain = d] ELSE @[n]]]
             s1 == [s EXCEPT !.ingredients = g, !.ndomains = d]
         IN IF \E i \in 1..ns : wstate[ws[i]] = "crashed"
            THEN Panic(s1, "send AssignDomain")
            ELSE IF \E i \in 1..ns : wstate[ws[i]] = "hung" THEN Block(s1)
            ELSE boot_domains(
                    [s1 EXCEPT !.domains = (d :> ws) @@ @,
                               !.log = @ \o [i \in 1..ns |->
                                   [type |-> "AssignDomain", domain |-> d, worker |-> ws[i]]]],
                    Tail(names), wis, k + ns)

\* DomainHandle::wait_for_next_reply: the polling loop ends with the next
\* reply and has no timeout (PollEvent::Timeout => unreachable!()); a worker
\* that has stopped never replies
wait_for_next_reply(s, w) == IF wstate[w] # "running" THEN Block(s) ELSE s

RECURSIVE wait_for_replies(_, _, _)
wait_for_replies(s, d, i) ==
    IF i > Len(s.domains[d]) \/ ~Running(s) THEN s
    ELSE wait_for_replies(wait_for_next_reply(s, s.domains[d][i]), d, i + 1)

\* DomainHandle::wait_for_ack: one reply for each shard of the domain
wait_for_ack(s, d) ==
    wait_for_replies(Log(s, [type |-> "wait_for_ack", domain |-> d]), d, 1)

\* the domains that hold a parent of a node the migration added: the sources
\* of the initial replays
replay_sources(s, mig) ==
    LET g == s.ingredients
    IN SetToSeqAsc({g.nodes[e[1]].domain :
                      e \in {x \in g.edges : x[2] \in Range(mig.added) /\ x[1] # source}})

\* trigger the initial replays and await them: each source domain is sent
\* the request and has to acknowledge it
RECURSIVE await_replays(_, _)
await_replays(s, ds) ==
    IF ds = <<>> \/ ~Running(s) THEN s
    ELSE IF ds[1] \notin DOMAIN s.domains THEN Panic(s, "unwrap")
    ELSE IF send_to_healthy(s, ds[1], "StartReplay").res # "Ok"
         THEN Panic(s, "failed to start replay")
    ELSE await_replays(wait_for_ack(s, ds[1]), Tail(ds))

Migration_booted(s1, mig) == await_replays(s1, replay_sources(s1, mig))

\* Migration::commit: the nodes the migration added become part of the graph,
\* each statement's nodes in a domain of their own, booted on a worker; then
\* the initial replays are triggered and awaited.
Migration_commit(s, mig) ==
    IF ~Running(s) THEN s
    ELSE LET names == SelectIn(Catalogue,
                        {mig.ingredients.nodes[n].name : n \in Range(mig.added)})
         IN Let(boot_domains([s EXCEPT !.ingredients = mig.ingredients],
                             names, SetToSeqAsc(HealthyWorkers(s)), 0),
                LAMBDA s1 : Migration_booted(s1, mig))

\* m.commit() has returned: the Migration, and with it its borrow of the
\* controller, is gone
Migration_committed(s) == IF Running(s) THEN Log(s, [type |-> "commit"]) ELSE s

migrate_commit_skipped(s, new, a) ==
    LET s1 == Log(s, [type |-> "migration", version |-> new.version,
                      expressions |-> new.expressions, ok |-> a.ok, e |-> a.e,
                      removed_leaves |-> a.removed_leaves])
    IN [s |-> s1, new |-> a.new, r |-> a]

\* migrate(f) with f = |mig| new.activate(mig): run f, commit, return f's result
migrate_commit(s, new, a) ==
    LET s1 == Log(s, [type |-> "migration", version |-> new.version,
                      expressions |-> new.expressions, ok |-> a.ok, e |-> a.e,
                      removed_leaves |-> a.removed_leaves])
    IN [s |-> Let(Migration_commit(s1, a.mig), Migration_committed),
        new |-> a.new, r |-> a]

migrate_activate(s, new) ==
    Let(Recipe_activate(new, Migration_new(s)), LAMBDA a : migrate_commit(s, new, a))

RECURSIVE remove_leaves(_, _)
remove_leaves(s, leaves) ==
    IF leaves = <<>> THEN s ELSE remove_leaves(remove_leaf(s, leaves[1]), Tail(leaves))

RECURSIVE remove_bases(_, _)
remove_bases(s, bases) ==
    IF bases = <<>> \/ ~Running(s) THEN s
    ELSE IF Outgoing(s.ingredients, bases[1]) # <<>> THEN Panic(s, "assertion failed")
    ELSE remove_bases(remove_nodes(s, <<bases[1]>>), Tail(bases))

topo_removals_forward(g, removed_other) == SelectIn(Topo(g), Range(removed_other))

\* apply_recipe, the order of the removals of the query nodes (lines 783-791)
topo_removals(g, removed_other) == Reverse(SelectIn(Topo(g), Range(removed_other)))

\* apply_recipe, what becomes of self.recipe when the activation failed
recipe_after_error(s) == Recipe_revert(s.recipe)

activation_error_generic(e) == "failed to activate recipe"

\* the map_err of the closure apply_recipe hands to migrate (lines 771-772)
activation_error(e) == "failed to activate recipe: " \o e

\* apply_recipe: [s: the controller afterwards, ok/e: the result]
\* apply_recipe, the Ok arm once the removals are done (lines 817-818)
apply_done(s2, new) ==
    [s |-> IF Running(s2) THEN [s2 EXCEPT !.recipe = new] ELSE s2,
     ok |-> Running(s2),
     e |-> IF Running(s2) THEN "" ELSE s2.status]

\* apply_recipe, the match on the result of the migration (lines 778-825)
apply_migrated(m) ==
    LET g == m.s.ingredients
        removed_bases == SelectSeq(m.r.removed_leaves, LAMBDA n : is_base(g, n))
        removed_other == SelectSeq(m.r.removed_leaves, LAMBDA n : ~is_base(g, n))
    IN IF ~Running(m.s) THEN [s |-> m.s, ok |-> FALSE, e |-> m.s.status]
       ELSE IF m.r.ok
            THEN Let(remove_bases(remove_leaves(m.s, topo_removals(g, removed_other)),
                                  removed_bases),
                     LAMBDA s2 : apply_done(s2, m.new))
            ELSE [s |-> [m.s EXCEPT !.recipe = recipe_after_error(m.s)],
                  ok |-> FALSE,
                  e |-> activation_error(m.r.e)]

apply_recipe(s, new) ==
    IF ~Running(s) THEN [s |-> s, ok |-> FALSE, e |-> s.status]
    ELSE Let(migrate_activate(s, new), apply_migrated)

----------------------------------------------------------------------------
(* Recipes through the controller, and the state persisted in the authority *)

Ok(v) == [ok |-> TRUE, v |-> v]
Err(e) == [ok |-> FALSE, v |-> e]
Result(a) == IF a.ok THEN Ok("activated") ELSE Err(a.e)

extend_persist_replacing(state, s, add_txt) ==
    IF state.epoch > s.epoch THEN [ok |-> FALSE, state |-> state]
    ELSE [ok |-> TRUE,
          state |-> [state EXCEPT !.recipe_version = Recipe_version(s.recipe),
                                  !.recipes = <<add_txt>>]]

\* the closure of read_modify_write in extend_recipe (lines 841-848)
extend_persist(state, s, add_txt) ==
    IF state.epoch > s.epoch THEN [ok |-> FALSE, state |-> state]
    ELSE [ok |-> TRUE,
          state |-> [state EXCEPT !.recipe_version = Recipe_version(s.recipe),
                                  !.recipes = Append(@, add_txt)]]

install_persist_unfenced(state, s, r_txt) ==
    [ok |-> TRUE,
     state |-> [state EXCEPT !.recipe_version = Recipe_version(s.recipe),
                             !.recipes = <<r_txt>>]]

\* the closure of read_modify_write in install_recipe (lines 876-883)
install_persist(state, s, r_txt) ==
    IF state.epoch > s.epoch THEN [ok |-> FALSE, state |-> state]
    ELSE [ok |-> TRUE,
          state |-> [state EXCEPT !.recipe_version = Recipe_version(s.recipe),
                                  !.recipes = <<r_txt>>]]

extend_rejected_not_restored(s, old) == s

\* extend_recipe, the arm for a text Recipe::extend rejects (lines 856-861)
extend_rejected(s, old) == [s EXCEPT !.recipe = old]

\* [s, state, ret]: the controller, the persisted state and the return value
\* extend_recipe / install_recipe after apply_recipe: persist, then answer
persisted(a, state, w, e) ==
    IF ~Running(a.s) THEN [s |-> a.s, state |-> state, ret |-> Err(a.s.status)]
    ELSE IF ~w.ok THEN [s |-> a.s, state |-> w.state, ret |-> Err(e)]
    ELSE [s |-> a.s, state |-> w.state, ret |-> Result(a)]

extend_applied(a, state, add_txt) ==
    persisted(a, state, extend_persist(state, a.s, add_txt),
              "Failed to persist recipe extension")

extend_recipe(s, state, add_txt) ==
    LET x == Recipe_extend(s.recipe, add_txt)
        s0 == [s EXCEPT !.recipe = Recipe_blank]
    IN IF x.ok
       THEN Let(apply_recipe(s0, x.new), LAMBDA a : extend_applied(a, state, add_txt))
       ELSE [s |-> extend_rejected(s0, x.old), state |-> state,
             ret |-> Err("failed to extend recipe")]

install_applied(a, state, r_txt) ==
    persisted(a, state, install_persist(state, a.s, r_txt),
              "Failed to persist recipe installation")

install_recipe(s, state, r_txt) ==
    LET x == Recipe_from_str(r_txt)
    IN IF x.ok
       THEN Let(apply_recipe([s EXCEPT !.recipe = Recipe_blank],
                             Recipe_replace(s.recipe, x.r)),
                LAMBDA a : install_applied(a, state, r_txt))
       ELSE [s |-> s, state |-> state, ret |-> Err("failed to parse recipe")]

----------------------------------------------------------------------------
(* Workers: registration, heartbeats and failure handling *)

WorkerStatus_new == [healthy |-> TRUE, last_heartbeat |-> 0]

NewlyFailedAfter_late == heartbeat_every * 5

\* the threshold of the first pass of check_worker_liveness (line 271)
NewlyFailedAfter == heartbeat_every * 4
\* the threshold of its second pass (line 284)
FailedAfter == heartbeat_every * 3

ElapsedCap == NewlyFailedAfter + 1
CheckedCap == healthcheck_every + 1

nodes_on_worker_with_dropped(s, w) ==
    LET g == s.ingredients
        ds == {d \in DOMAIN s.domains : w \in Range(s.domains[d])}
    IN SetToSeqAsc({n \in NodeIndices(g) : n # source /\ g.nodes[n].domain \in ds})

\* nodes_on_worker(Some(worker)): the live nodes of the domains with a shard on it
nodes_on_worker(s, w) ==
    LET g == s.ingredients
        ds == {d \in DOMAIN s.domains : w \in Range(s.domains[d])}
    IN SetToSeqAsc({n \in NodeIndices(g) :
                      n # source /\ ~is_dropped(g, n) /\ g.nodes[n].domain \in ds})

RECURSIVE failed_walk(_, _, _)
failed_walk(g, nodes, failed_nodes) ==
    IF nodes = <<>> THEN failed_nodes
    ELSE LET node == nodes[Len(nodes)]
             rest == SubSeq(nodes, 1, Len(nodes) - 1)
             push == SelectSeq(Outgoing(g, node), LAMBDA c : c \notin Range(rest))
         IN failed_walk(g, rest \o push, Append(failed_nodes, node))

get_failed_nodes_local(s, lost_worker) == nodes_on_worker(s, lost_worker)

get_failed_nodes(s, lost_worker) ==
    failed_walk(s.ingredients, nodes_on_worker(s, lost_worker), <<>>)

RECURSIVE affected_nodes(_, _)
affected_nodes(s, failed) ==
    IF failed = <<>> THEN <<>>
    ELSE get_failed_nodes(s, failed[1]) \o affected_nodes(s, Tail(failed))

\* handle_failed_workers, lines 315-319: the original recipe is applied again
reinstalled(a2) ==
    IF ~a2.ok THEN Panic(a2.s, "failed to activate original recipe") ELSE a2.s

\* handle_failed_workers, lines 306-314: the recovery recipe has been applied
recovered(a1, original) ==
    IF ~a1.ok THEN Panic(a1.s, "failed to apply recovery recipe")
    ELSE LET tmp == a1.s.recipe
         IN Let(apply_recipe(a1.s, [original EXCEPT !.prior = <<tmp>>, !.inc = tmp.inc]),
                reinstalled)

recover(s, rr) == Let(apply_recipe(s, rr.recovery), LAMBDA a1 : recovered(a1, rr.original))

handle_failed_workers(s, failed) ==
    recover(Log(s, [type |-> "handle_failed_workers", failed |-> failed,
                    nodes |-> [k \in DOMAIN failed |-> get_failed_nodes(s, failed[k])]]),
            make_recovery(s.recipe,
                          queries_for_nodes(s.recipe, s.ingredients,
                                            affected_nodes(s, failed))))

\* check_worker_liveness, line 275: a pass over the workers restarts the clock
checked_after(s, scan) == IF scan THEN 0 ELSE s.last_checked_workers

check_worker_liveness(s) ==
    LET scan == s.last_checked_workers > healthcheck_every
        any_failed == scan /\ \E w \in DOMAIN s.workers :
                          s.workers[w].healthy /\ s.workers[w].last_heartbeat > NewlyFailedAfter
        s1 == [s EXCEPT !.last_checked_workers = checked_after(s, scan)]
        failed == {w \in DOMAIN s.workers :
                      s.workers[w].healthy /\ s.workers[w].last_heartbeat > FailedAfter}
        s2 == [s1 EXCEPT !.workers = [w \in DOMAIN @ |->
                            IF w \in failed THEN [@[w] EXCEPT !.healthy = FALSE] ELSE @[w]]]
    IN IF any_failed THEN handle_failed_workers(s2, SetToSeqAsc(failed)) ELSE s1

handle_heartbeat_check_first(s, w) ==
    LET s1 == check_worker_liveness(s)
    IN IF w \in DOMAIN s1.workers
       THEN [s1 EXCEPT !.workers[w].last_heartbeat = 0]
       ELSE s1

handle_heartbeat_no_check(s, w) ==
    IF w \in DOMAIN s.workers
    THEN [s EXCEPT !.workers[w].last_heartbeat = 0]
    ELSE s

handle_heartbeat(s, w) ==
    check_worker_liveness(
        IF w \in DOMAIN s.workers
        THEN [s EXCEPT !.workers[w].last_heartbeat = 0]
        ELSE s)

RECURSIVE recover_recipes(_, _)
\* handle_register, line 257: apply_recipe(..).unwrap() in the recovery loop
recover_next(a, recipes) ==
    IF a.ok THEN recover_recipes(a.s, recipes) ELSE Panic(a.s, "unwrap")

recover_recipes(s, recipes) ==
    IF recipes = <<>> \/ ~Running(s) THEN s
    ELSE LET x == Recipe_extend(s.recipe, recipes[1])
         IN IF ~x.ok THEN Panic(s, "unwrap")
            ELSE Let(apply_recipe(s, x.new), LAMBDA a : recover_next(a, Tail(recipes)))

handle_register(s, w) ==
    LET s1 == [s EXCEPT !.workers = (w :> WorkerStatus_new) @@ @]
        pr == s.pending_recovery
    IN IF Cardinality(DOMAIN s1.workers) >= s.quorum /\ pr # <<>>
       THEN IF \/ Cardinality(DOMAIN s1.workers) # s.quorum
               \/ Recipe_version(s1.recipe) # 0
               \/ ~(pr[1].recipe_version + 1 >= Len(pr[1].recipes))
            THEN Panic([s1 EXCEPT !.pending_recovery = <<>>], "assertion failed")
            ELSE recover_recipes(
                    [s1 EXCEPT !.pending_recovery = <<>>,
                               !.recipe = [Recipe_blank EXCEPT !.version =
                                   pr[1].recipe_version + 1 - Len(pr[1].recipes)]],
                    pr[1].recipes)
       ELSE s1

\* ControllerInner::new
ControllerInner_new(state) ==
    [ingredients |-> [nodes |-> <<SourceNode>>, edges |-> {}],
     ndomains |-> 0,
     domains |-> <<>>,
     recipe |-> Recipe_blank,
     workers |-> <<>>,
     epoch |-> state.epoch,
     quorum |-> state.config.quorum,
     sharding |-> state.config.sharding,
     pending_recovery |-> IF state.recipes # <<>>
                          THEN <<[recipes |-> state.recipes,
                                  recipe_version |-> state.recipe_version]>>
                          ELSE <<>>,
     last_checked_workers |-> 0,
     status |-> "running",
     log |-> <<>>]

----------------------------------------------------------------------------
(* The staging planner (src/planner/src/lib.rs).  The variable `plan` holds *)
(* the DataflowGraph (df), the Plan that borrows it (active: empty, or one  *)
(* Plan with next_graph and new) and whether the caller has panicked.       *)

DataflowGraph_default == [graph |-> [nodes |-> <<>>, edges |-> {}]]

\* DataflowNode::from(f): an Inner operator without indices, not partial
DataflowNode_from(f) == [operator |-> "Inner", f |-> f, indices |-> {}, partial |-> FALSE]

Plan_new(df) == [next_graph |-> df.graph, new |-> {}]

\* the panic unwinds through the owner of the Plan, which is dropped
Plan_panic(pl, why) == [pl EXCEPT !.active = <<>>, !.status = "panic: " \o why]

RECURSIVE add_connections(_, _, _)
add_connections(g, parents, ni) ==
    IF parents = <<>> THEN g
    ELSE add_connections(add_edge(g, parents[1], ni), Tail(parents), ni)

\* Plan::add_node(f) with f.ancestors() = parents; Graph::add_edge panics
\* on an index that is not a node of the graph
Plan_add_node(pl, f, parents) ==
    LET p == pl.active[1]
        ni == Len(p.next_graph.nodes) + 1
    IN IF parents = <<>> THEN Plan_panic(pl, "assertion failed: !parents.is_empty()")
       ELSE IF \E i \in 1..Len(parents) : parents[i] > ni
            THEN Plan_panic(pl, "Graph::add_edge: node indices out of bounds")
       ELSE [pl EXCEPT !.active[1].next_graph =
                          add_connections(add_node(p.next_graph, DataflowNode_from(f)),
                                          parents, ni),
                       !.active[1].new = @ \cup {ni}]

\* Plan::maintain(n, key): the first Reader among the children of n gets the
\* key as an index; without one the method is unimplemented
Plan_maintain(pl, n, key) ==
    LET g == pl.active[1].next_graph
        readers == SelectSeq(Outgoing(g, n), LAMBDA c : g.nodes[c].operator = "Reader")
    IN IF readers # <<>>
       THEN [pl EXCEPT !.active[1].next_graph.nodes[readers[1]].indices = @ \cup {key}]
       ELSE Plan_panic(pl, "not yet implemented: need to add reader")

\* plan_materialization, make_partial, shard, assign_domains, network: they
\* decide the attributes of the new nodes of the proposed graph
Plan_passes(p) ==
    [p EXCEPT !.next_graph.nodes =
        [n \in DOMAIN @ |-> IF n \in p.new THEN [@[n] EXCEPT !.partial = TRUE] ELSE @[n]]]

Plan_commit_discards(pl) == [pl EXCEPT !.active = <<>>]

\* Plan::commit: the passes, then self.df.graph = self.next_graph
Plan_commit(pl) ==
    [pl EXCEPT !.df.graph = Plan_passes(pl.active[1]).next_graph, !.active = <<>>]

\* the Vec<Step> that Plan::commit returns: Vec::new()
Plan_commit_steps(pl) == <<>>

\* the Plan goes out of scope without commit
Plan_drop(pl) == [pl EXCEPT !.active = <<>>]

----------------------------------------------------------------------------
(* The domain runtime and the replay engine.  `dom` holds a source domain   *)
(* with the Full state of a base (base), a destination domain with a        *)
(* Partial state fed by it (st), the channel from the source to the         *)
(* destination (chan: messages and replay pieces, in order) and the replay  *)
(* requests going back (req).  It also keeps the state the destination      *)
(* would hold with partial materialization disabled (full), the deltas that *)
(* wait for a replay (waiting), the keys with a replay outstanding and the  *)
(* deltas processed so far, in order (done), and what has been sent on and  *)
(* taken from each of the two edges (sent, got).  A view on the Partial      *)
(* state answers blocking lookups: the lookups that wait for a replay        *)
(* (blocked) and the answers given so far (answers).                         *)

DKeys == {1, 2}

Tag == "t1"

Row(k, id) == [k |-> k, id |-> id]

State_new == [k \in DKeys |-> [filled |-> FALSE, rows |-> <<>>]]

\* lookup(index, key) -> Hit(rows) | Miss
lookup(st, k) ==
    IF st[k].filled THEN [hit |-> TRUE, rows |-> st[k].rows]
    ELSE [hit |-> FALSE, rows |-> <<>>]

insert(st, r) == [st EXCEPT ![r.k].rows = Append(@, r)]

RECURSIVE insert_all(_, _)
insert_all(st, rows) ==
    IF rows = <<>> THEN st ELSE insert_all(insert(st, rows[1]), Tail(rows))

mark_filled(st, k) == [st EXCEPT ![k].filled = TRUE]

mark_hole(st, k) == [st EXCEPT ![k] = [filled |-> FALSE, rows |-> <<>>]]

NoDomain ==
    [base |-> {}, writes |-> 0, chan |-> <<>>, req |-> <<>>,
     st |-> State_new, full |-> [k \in DKeys |-> <<>>],
     waiting |-> [k \in DKeys |-> <<>>], outstanding |-> {},
     deltas |-> 0, evicts |-> 0, done |-> <<>>,
     sent |-> [chan |-> <<>>, req |-> <<>>], got |-> [chan |-> <<>>, req |-> <<>>],
     reads |-> 0, blocked |-> [k \in DKeys |-> 0], answers |-> <<>>]

Packet(type, k, rows, last) == [type |-> type, key |-> k, rows |-> rows, last |-> last]

\* the channel fabric: a packet sent downstream joins the end of the edge
\* from the source to the destination, a replay request the end of the edge
\* back
send_down(d, p) == [d EXCEPT !.chan = Append(@, p), !.sent.chan = Append(@, p)]

send_up(d, r) == [d EXCEPT !.req = Append(@, r), !.sent.req = Append(@, r)]

dequeue_newest(ch) == [head |-> ch[Len(ch)], rest |-> SubSeq(ch, 1, Len(ch) - 1)]

\* a domain takes the packet that arrived first
dequeue(ch) == [head |-> Head(ch), rest |-> Tail(ch)]

\* the destination has taken a packet from its inbox, the source a request
taken_down(d) ==
    [d EXCEPT !.chan = dequeue(d.chan).rest, !.got.chan = Append(@, dequeue(d.chan).head)]

taken_up(d) ==
    [d EXCEPT !.req = dequeue(d.req).rest, !.got.req = Append(@, dequeue(d.req).head)]

\* the base writes that have reached the destination
Applied(d) == Len(SelectSeq(d.got.chan, LAMBDA p : p.type = "Message"))

\* the view returns the rows of a key that is filled
answer(d, k) ==
    [d EXCEPT !.answers = Append(@, [key |-> k, rows |-> d.st[k].rows, writes |-> d.writes,
                                     applied |-> Applied(d), evicts |-> d.evicts])]

\* lookup(key, block = true): a Hit returns the rows; a Miss asks for the
\* replay of the key, unless one is outstanding, and blocks until it completes
view_lookup(d, k) ==
    LET d1 == [d EXCEPT !.reads = @ + 1]
    IN IF lookup(d.st, k).hit THEN answer(d1, k)
       ELSE IF k \in d.outstanding THEN [d1 EXCEPT !.blocked[k] = @ + 1]
       ELSE send_up([d1 EXCEPT !.blocked[k] = @ + 1, !.outstanding = @ \cup {k}],
                    [tag |-> Tag, key |-> k])

\* the replay of key k is complete: the lookups that were blocked on it return
RECURSIVE wake(_, _)
wake(d, k) ==
    IF d.blocked[k] = 0 THEN d ELSE wake(answer([d EXCEPT !.blocked[k] = @ - 1], k), k)

\* a base write: the source state takes the row and the delta goes downstream
base_write(d, k) ==
    LET r == Row(k, d.writes + 1)
    IN send_down([d EXCEPT !.base = @ \cup {r}, !.writes = @ + 1],
                 Packet("Message", k, <<r>>, TRUE))

\* normal processing of a delta that consults key k of the state
process(d, id, k, buffered) ==
    [d EXCEPT !.done = Append(@, [delta |-> id, key |-> k, buffered |-> buffered,
                                  rows |-> d.st[k].rows])]

on_miss_always_requests(d, id, k) ==
    send_up([d EXCEPT !.waiting[k] = Append(@, id), !.outstanding = @ \cup {k}],
            [tag |-> Tag, key |-> k])

\* a miss: the triggering delta is buffered in the waiting list of (tag, key)
\* and a replay request goes upstream unless one is outstanding for the key
on_miss(d, id, k) ==
    IF k \in d.outstanding THEN [d EXCEPT !.waiting[k] = Append(@, id)]
    ELSE send_up([d EXCEPT !.waiting[k] = Append(@, id), !.outstanding = @ \cup {k}],
                 [tag |-> Tag, key |-> k])

\* on_input of a delta that has to consult key k
on_input(d, k) ==
    LET id == d.deltas + 1
        d1 == [d EXCEPT !.deltas = id]
    IN IF lookup(d.st, k).hit THEN process(d1, id, k, FALSE) ELSE on_miss(d1, id, k)

on_message_keeps_missing(d, p) ==
    [d EXCEPT !.full[p.key] = Append(@, p.rows[1]), !.st = insert(@, p.rows[1])]

\* a write at the destination: dropped for a key still missing, applied for a
\* key that is filled (the state without partial materialization takes it)
on_message(d, p) ==
    [d EXCEPT !.full[p.key] = Append(@, p.rows[1]),
              !.st = IF @[p.key].filled THEN insert(@, p.rows[1]) ELSE @]

RECURSIVE drain_lifo(_, _, _)
drain_lifo(d, k, ids) ==
    IF ids = <<>> THEN d
    ELSE drain_lifo(process(d, ids[Len(ids)], k, TRUE), k, SubSeq(ids, 1, Len(ids) - 1))

\* the buffered deltas of a key are drained into normal processing
RECURSIVE drain(_, _, _)
drain(d, k, ids) ==
    IF ids = <<>> THEN d ELSE drain(process(d, ids[1], k, TRUE), k, Tail(ids))

on_replay_piece_fills_early(d, p) ==
    IF ~p.last THEN [d EXCEPT !.st = mark_filled(insert_all(d.st, p.rows), p.key)]
    ELSE wake(drain([d EXCEPT !.st = mark_filled(insert_all(d.st, p.rows), p.key),
                              !.outstanding = @ \ {p.key},
                              !.waiting[p.key] = <<>>],
                    p.key, d.waiting[p.key]),
              p.key)

\* a replay piece at the destination: its rows go into the state; the final
\* piece flips the key to filled, then the buffered deltas are drained and
\* the blocked lookups return
on_replay_piece(d, p) ==
    IF ~p.last THEN [d EXCEPT !.st = insert_all(d.st, p.rows)]
    ELSE wake(drain([d EXCEPT !.st = mark_filled(insert_all(d.st, p.rows), p.key),
                              !.outstanding = @ \ {p.key},
                              !.waiting[p.key] = <<>>],
                    p.key, d.waiting[p.key]),
              p.key)

\* the rows of key k in the source state, in the order they were written
source_rows(d, k) ==
    SelectSeq([i \in 1..d.writes |-> CHOOSE r \in d.base : r.id = i], LAMBDA r : r.k = k)

\* a replay request at the source: the Full state is probed at the key and
\* the rows go downstream, as one final piece or split after the first rows
on_replay_request(d, r, first) ==
    LET k == r.key
        rows == source_rows(d, k)
    IN IF first = 0
       THEN send_down(d, Packet("ReplayPiece", k, rows, TRUE))
       ELSE send_down(send_down(d, Packet("ReplayPiece", k, SubSeq(rows, 1, first), FALSE)),
                      Packet("ReplayPiece", k, SubSeq(rows, first + 1, Len(rows)), TRUE))

evict_keeps_rows(d, k) == [d EXCEPT !.st[k].filled = FALSE, !.evicts = @ + 1]

\* eviction of a filled key
evict(d, k) == [d EXCEPT !.st = mark_hole(@, k), !.evicts = @ + 1]

\* Packet::Evict at a partial node, sent by flush_partial: all of its state goes
RECURSIVE evict_keys(_, _)
evict_keys(d, ks) ==
    IF ks = <<>> THEN d ELSE evict_keys(evict(d, ks[1]), Tail(ks))

evict_all(d) == evict_keys(d, SetToSeqAsc({k \in DKeys : d.st[k].filled}))

----------------------------------------------------------------------------
(* The handlers as actions *)

WithinBounds ==
    /\ self.recipe.version < MaxVersion
    /\ Len(authority.recipes) < MaxRecipes
    /\ Len(self.ingredients.nodes) < MaxNodes

\* external_request, the gate before every request that changes something
Unavailable(s) ==
    s.pending_recovery # <<>> \/ Cardinality(DOMAIN s.workers) < s.quorum

Begin(s) == [s EXCEPT !.log = <<>>]

\* the handler's effect x = [s, state, ret] becomes the next state
Respond(x) == self' = x.s /\ authority' = x.state /\ ret' = x.ret

Answer(s1, ok) == self' = s1 /\ ret' = IF Running(s1) THEN Ok(ok) ELSE Err(s1.status)

(* Statistics, eviction and the routes of external_request *)

\* the orders in which a HashMap may hand out the keys S: any key may come
\* first (the others follow in ascending order)
Orders(S) ==
    IF S = {} THEN {<<>>} ELSE {<<d>> \o SetToSeqAsc(S \ {d}) : d \in S}

\* DomainHandle::wait_for_statistics: one reply for each shard of the domain
wait_for_statistics(s, d) ==
    wait_for_replies(Log(s, [type |-> "wait_for_statistics", domain |-> d]), d, 1)

\* the closure of get_statistics and of flush_partial for one domain:
\* send_to_healthy(GetStatistics).unwrap(), then wait_for_statistics().unwrap()
domain_statistics(s, d) ==
    IF ~Running(s) THEN s
    ELSE LET r == send_to_healthy(s, d, [type |-> "GetStatistics"])
             s1 == [s EXCEPT !.log = @ \o r.sent]
         IN IF r.res # "Ok" THEN Panic(s1, "unwrap") ELSE wait_for_statistics(s1, d)

RECURSIVE statistics(_, _)
statistics(s, ds) ==
    IF ds = <<>> \/ ~Running(s) THEN s
    ELSE statistics(domain_statistics(s, ds[1]), Tail(ds))

\* get_statistics: the domains one after the other, in the order of the map
get_statistics(s, order) == statistics(s, order)

\* MaterializationStatus::Partial in the statistics a domain reports: the
\* keyed state of a live reader
is_partial(g, n) == is_reader(g, n)

\* the materialization a domain reports for a node in its statistics
materialized(g, n) ==
    IF is_partial(g, n) THEN "Partial" ELSE IF is_base(g, n) THEN "Full" ELSE "Not"

\* the statistics one shard of domain d reports: every node of the domain
\* that is live, with its materialization and the size of its state there
node_stats(s, d, bytes) ==
    LET g == s.ingredients
        ns == SetToSeqAsc({n \in NodeIndices(g) :
                             n # source /\ ~is_dropped(g, n) /\ g.nodes[n].domain = d})
    IN [k \in 1..Len(ns) |->
          [node |-> ns[k], materialized |-> materialized(g, ns[k]),
           mem_size |-> IF materialized(g, ns[k]) = "Not" THEN 0 ELSE bytes]]

\* wait_for_statistics has returned for every domain: one report for each
\* shard, domain by domain in the order of the map; shard i reports sizes[i]
RECURSIVE reports(_, _, _, _)
reports(s, ds, i, sizes) ==
    IF ds = <<>> THEN <<>>
    ELSE IF i > Len(s.domains[ds[1]]) THEN reports(s, Tail(ds), 1, sizes)
    ELSE <<[type |-> "Statistics", domain |-> ds[1], shard |-> i,
            stats |-> node_stats(s, ds[1], sizes[i])]>>
         \o reports(s, ds, i + 1, sizes)

RECURSIVE to_evict_full_too(_)
to_evict_full_too(reps) ==
    IF reps = <<>> THEN <<>>
    ELSE [k \in 1..Len(reps[1].stats) |->
             [domain |-> reps[1].domain, node |-> reps[1].stats[k].node,
              bytes |-> reps[1].stats[k].mem_size]]
         \o to_evict_full_too(Tail(reps))

\* flush_partial, first loop: of every report the nodes it gives as Partial,
\* each with the mem_size of that report
RECURSIVE to_evict(_)
to_evict(reps) ==
    IF reps = <<>> THEN <<>>
    ELSE LET part == SelectSeq(reps[1].stats, LAMBDA ns : ns.materialized = "Partial")
         IN [k \in 1..Len(part) |->
                [domain |-> reps[1].domain, node |-> part[k].node,
                 bytes |-> part[k].mem_size]]
            \o to_evict(Tail(reps))

\* the packet that evicts the bytes of an entry
EvictPacket(e) == [type |-> "Evict", node |-> e.node, num_bytes |-> e.bytes]

\* flush_partial, second loop: one Evict packet for each entry, handed to
\* send_to_healthy; the bytes add up to the value returned
RECURSIVE evict_nodes(_, _, _)
evict_nodes(s, es, total_evicted) ==
    IF ~Running(s) THEN s
    ELSE IF es = <<>> THEN Log(s, [type |-> "flushed", total |-> total_evicted])
    ELSE LET r == send_to_healthy(s, es[1].domain, EvictPacket(es[1]))
             s1 == [s EXCEPT !.log = @ \o <<[type |-> "send_to_healthy",
                                              domain |-> es[1].domain,
                                              packet |-> EvictPacket(es[1])]>> \o r.sent]
         IN IF r.res # "Ok" THEN Panic(s1, "failed to send domain flush message")
            ELSE evict_nodes(s1, Tail(es), total_evicted + es[1].bytes)

\* the statistics have arrived
flush_reported(s, reps) ==
    IF ~Running(s) THEN s ELSE evict_nodes([s EXCEPT !.log = @ \o reps], to_evict(reps), 0)

flush_partial(s, order, sizes) ==
    Let(statistics(s, order), LAMBDA s1 : flush_reported(s1, reports(s1, order, 1, sizes)))

\* inputs(): the neighbours of the source, each asserted to be a base
inputs(s) ==
    IF \E n \in Range(Outgoing(s.ingredients, source)) : ~is_base(s.ingredients, n)
    THEN Panic(s, "assertion failed")
    ELSE s

\* the routes that read a JSON body
BodyRoutes ==
    { <<"POST", "/extend_recipe">>, <<"POST", "/install_recipe">>, <<"POST", "/remove_node">> }

\* the routes that answer from the state of the controller and ignore the body
ReadRoutes == { <<"POST", "/inputs">>, <<"GET", "/instances">> }

\* the routes answered before the gate
OpenRoutes == { <<"GET", "/graph">>, <<"POST", "/graphviz">>, <<"GET", "/get_statistics">> }

\* a handler has returned (or panicked, or waits forever)
answered(s1, state, v) ==
    [s |-> s1, state |-> state, ret |-> IF Running(s1) THEN Ok(v) ELSE Err(s1.status)]

\* external_request, the routes after the gate (lines 153-225)
routed(s, state, method, path, body, order, sizes) ==
    IF <<method, path>> = <<"GET", "/flush_partial">>
    THEN Let(flush_partial(s, order, sizes), LAMBDA s1 : answered(s1, state, "flushed"))
    ELSE IF <<method, path>> = <<"POST", "/inputs">>
    THEN Let(inputs(s), LAMBDA s1 : answered(s1, state, path))
    ELSE IF <<method, path>> \in ReadRoutes THEN answered(s, state, path)
    ELSE IF <<method, path>> \notin BodyRoutes THEN [s |-> s, state |-> state, ret |-> Err("NOT_FOUND")]
    ELSE IF ~body.json THEN [s |-> s, state |-> state, ret |-> Err("BAD_REQUEST")]
    ELSE IF path = "/extend_recipe" THEN extend_recipe(s, state, body.v)
    ELSE IF path = "/install_recipe" THEN install_recipe(s, state, body.v)
    ELSE Let(remove_nodes(s, <<body.v>>), LAMBDA s1 : answered(s1, state, "removed"))

external_request_ungated(s, state, method, path, body, order, sizes) ==
    IF <<method, path>> \in { <<"GET", "/graph">>, <<"POST", "/graphviz">> }
    THEN answered(s, state, "graphviz")
    ELSE IF <<method, path>> = <<"GET", "/get_statistics">>
    THEN Let(get_statistics(s, order), LAMBDA s1 : answered(s1, state, "statistics"))
    ELSE routed(s, state, method, path, body, order, sizes)

\* external_request (lines 128-226)
external_request(s, state, method, path, body, order, sizes) ==
    IF <<method, path>> \in { <<"GET", "/graph">>, <<"POST", "/graphviz">> }
    THEN answered(s, state, "graphviz")
    ELSE IF <<method, path>> = <<"GET", "/get_statistics">>
    THEN Let(get_statistics(s, order), LAMBDA s1 : answered(s1, state, "statistics"))
    ELSE IF Unavailable(s)
    THEN [s |-> s, state |-> state, ret |-> Err("SERVICE_UNAVAILABLE")]
    ELSE routed(s, state, method, path, body, order, sizes)

\* a request arrives: method, path and body, the body valid JSON or not; the
\* map of the domains hands them out in some order, and shard i of a domain
\* reports sizes[i] bytes for each of its nodes
Request(method, path, body, order, sizes) ==
    /\ Running(self)
    /\ (<<method, path>> \in BodyRoutes /\ body.json) =>
          IF path = "/remove_node"
          THEN /\ body.v \in NodeIndices(self.ingredients)
               /\ ~is_dropped(self.ingredients, body.v) /\ body.v # source
          ELSE WithinBounds
    /\ call' = [op |-> "request",
                arg |-> <<method, path, IF body.json THEN "json" ELSE "not json">>]
    /\ \E x \in {external_request(Begin(self), authority, method, path, body, order, sizes)} :
          Respond(x)
    /\ UNCHANGED <<wstate, plan, dom, boot>>

\* POST /extend_recipe
ExtendRecipe(t) ==
    /\ Running(self) /\ WithinBounds
    /\ call' = [op |-> "extend_recipe", arg |-> t]
    /\ IF Unavailable(self)
       THEN /\ ret' = Err("SERVICE_UNAVAILABLE")
            /\ self' = Begin(self)
            /\ UNCHANGED authority
       ELSE \E x \in {extend_recipe(Begin(self), authority, t)} : Respond(x)
    /\ UNCHANGED <<wstate, plan, dom, boot>>

\* POST /install_recipe
InstallRecipe(t) ==
    /\ Running(self) /\ WithinBounds
    /\ call' = [op |-> "install_recipe", arg |-> t]
    /\ IF Unavailable(self)
       THEN /\ ret' = Err("SERVICE_UNAVAILABLE")
            /\ self' = Begin(self)
            /\ UNCHANGED authority
       ELSE \E x \in {install_recipe(Begin(self), authority, t)} : Respond(x)
    /\ UNCHANGED <<wstate, plan, dom, boot>>

\* POST /remove_node
RemoveNode(n) ==
    /\ Running(self)
    /\ n \in NodeIndices(self.ingredients)
    /\ ~is_dropped(self.ingredients, n) /\ n # source
    /\ call' = [op |-> "remove_node", arg |-> n]
    /\ IF Unavailable(self)
       THEN ret' = Err("SERVICE_UNAVAILABLE") /\ self' = Begin(self)
       ELSE \E s1 \in {remove_nodes(Begin(self), <<n>>)} : Answer(s1, "removed")
    /\ UNCHANGED <<authority, wstate, plan, dom, boot>>

\* a worker process starts (or connects again) and registers
Register(w) ==
    /\ Running(self)
    /\ \/ wstate[w] = "idle"
       \/ wstate[w] = "running" /\ (w \notin DOMAIN self.workers \/ WithinBounds)
    /\ wstate' = [wstate EXCEPT ![w] = "running"]
    /\ call' = [op |-> "register", arg |-> w]
    /\ \E s1 \in {handle_register(Begin(self), w)} : Answer(s1, "registered")
    /\ UNCHANGED <<authority, plan, dom, boot>>

\* a running worker sends a heartbeat
Heartbeat(w) ==
    /\ Running(self)
    /\ wstate[w] = "running"
    /\ call' = [op |-> "heartbeat", arg |-> w]
    /\ \E s1 \in {handle_heartbeat(Begin(self), w)} : Answer(s1, "heartbeat")
    /\ UNCHANGED <<authority, wstate, plan, dom, boot>>

\* a worker process dies (its sockets close) or hangs (it stays silent)
Crash(w) ==
    /\ wstate[w] = "running"
    /\ \E how \in {"crashed", "hung"} : wstate' = [wstate EXCEPT ![w] = how]
    /\ call' = [op |-> "crash", arg |-> w]
    /\ UNCHANGED <<self, authority, ret, plan, dom, boot>>

\* time passes
Tick ==
    /\ Running(self)
    /\ self' = [self EXCEPT
          !.workers = [w \in DOMAIN @ |->
              [@[w] EXCEPT !.last_heartbeat = IF @ < ElapsedCap THEN @ + 1 ELSE @]],
          !.last_checked_workers = IF @ < CheckedCap THEN @ + 1 ELSE @]
    /\ call' = [op |-> "tick", arg |-> 0]
    /\ UNCHANGED <<authority, wstate, ret, plan, dom, boot>>

\* ControllerConfig: sharding is None (0) or Some(n)
ControllerConfig_default == [quorum |-> quorum, sharding |-> 0]

ControllerState_new ==
    [config |-> ControllerConfig_default, epoch |-> epoch, recipes |-> <<>>,
     recipe_version |-> 0]

NoCall == [op |-> "new", arg |-> 0]

\* no Plan borrows the DataflowGraph, which is DataflowGraph::default()
NoPlan == [df |-> DataflowGraph_default, active |-> <<>>, status |-> "running"]

----------------------------------------------------------------------------
(* DomainHandle::new: a domain is booted on the workers *)

\* no domain is being booted
NoBoot ==
    [pc |-> "idle", num_shards |-> 0, placer |-> 0, assignments |-> <<>>,
     up |-> {}, cr |-> <<>>, coord |-> <<>>, txs |-> <<>>, shards |-> <<>>,
     log |-> <<>>]

\* the index of the domain that is booted
idx == 1

\* the worker endpoints DomainBooted is broadcast to
endpoints == SetToSeqAsc(Workers)

\* DomainHandle::new is entered: num_shards is None (0) or Some(n); the
\* placer stands at some worker
DomainHandle_new(n, placer) ==
    [NoBoot EXCEPT !.pc = "assign", !.num_shards = n, !.placer = placer]

\* num_shards.unwrap_or(1)
nshards(b) == IF b.num_shards = 0 THEN 1 ELSE b.num_shards

\* the first loop of DomainHandle::new, iteration i: the DomainBuilder of
\* shard i goes to the next worker of the placer, which is pushed on
\* assignments; then the control connection of the shard is accepted.  The
\* send to a worker that is gone fails (unwrap); a worker that hangs never
\* connects.
assign_shard(b) ==
    LET i == Len(b.assignments)
        w == endpoints[(b.placer % Len(endpoints)) + 1]
        m == [type |-> "AssignDomain", to |-> w, index |-> idx, i |-> i,
              shard |-> IF b.num_shards # 0 THEN <<i>> ELSE <<>>,
              nshards |-> nshards(b)]
    IN IF wstate[w] = "crashed" THEN [b EXCEPT !.pc = "panic"]
       ELSE LET b1 == [b EXCEPT !.placer = @ + 1, !.log = Append(@, m),
                                !.assignments = Append(@, w)]
            IN IF wstate[w] = "hung" THEN [b1 EXCEPT !.pc = "blocked"]
               ELSE [b1 EXCEPT !.pc = IF i + 1 = nshards(b) THEN "poll" ELSE "assign"]

\* the address shard i listens on
addr_of(b, i) == [worker |-> b.assignments[i + 1], shard |-> i]

\* the domain of shard i has started on its worker and reports its address
domain_boots(b, i) ==
    [b EXCEPT !.up = @ \cup {i},
              !.cr = Append(@, [type |-> "Booted", shard |-> i, addr |-> addr_of(b, i)])]

\* channel_coordinator.insert_addr and txs.insert
insert_addr(b, m) ==
    [b EXCEPT !.coord = (m.shard :> m.addr) @@ @,
              !.txs = (m.shard :> m.addr) @@ @,
              !.log = Append(@, [type |-> "insert_addr", index |-> idx,
                                 shard |-> m.shard, addr |-> m.addr])]

\* DomainBooted goes to every worker endpoint; the send to a worker that is
\* gone fails (unwrap)
RECURSIVE broadcast(_, _, _)
broadcast(b, ws, m) ==
    IF ws = <<>> \/ b.pc = "panic" THEN b
    ELSE IF wstate[ws[1]] = "crashed" THEN [b EXCEPT !.pc = "panic"]
    ELSE broadcast([b EXCEPT !.log = Append(@, [type |-> "DomainBooted", to |-> ws[1],
                                                 index |-> idx, shard |-> m.shard,
                                                 addr |-> m.addr])],
                   Tail(ws), m)

\* the polling loop has stopped: a shard handle for each assignment
DomainHandle_build(b) ==
    IF \E i \in 1..Len(b.assignments) : (i - 1) \notin DOMAIN b.txs
    THEN [b EXCEPT !.pc = "panic"]
    ELSE [b EXCEPT !.pc = "returned",
                   !.shards = [i \in 1..Len(b.assignments) |->
                                  [worker |-> b.assignments[i], tx |-> b.txs[i - 1]]]]

\* StopPolling once txs holds as many shards as the domain has
stop_polling(b) ==
    IF b.pc = "panic" THEN b
    ELSE IF Cardinality(DOMAIN b.txs) = nshards(b) THEN DomainHandle_build(b)
    ELSE b

\* a Booted reply has been taken from the control connections
recv(b, m) == [b EXCEPT !.log = Append(@, [type |-> "Booted", shard |-> m.shard, addr |-> m.addr])]

on_booted_broadcast_first(b, m) ==
    stop_polling(insert_addr(broadcast(recv(b, m), endpoints, m), m))

\* the polling loop of DomainHandle::new processes Booted(shard, addr)
on_booted(b, m) ==
    stop_polling(broadcast(insert_addr(recv(b, m), m), endpoints, m))

Init ==
    /\ authority = ControllerState_new
    /\ self = ControllerInner_new(authority)
    /\ wstate = [w \in Workers |-> "idle"]
    /\ call = NoCall
    /\ ret = Ok("new")
    /\ plan = NoPlan
    /\ dom = NoDomain
    /\ boot = NoBoot

Next ==
    \/ \E t \in Texts : ExtendRecipe(t)
    \/ \E t \in Texts : InstallRecipe(t)
    \/ \E w \in Workers : Register(w)

Spec == Init /\ [][Next]_vars

(* The planner on its own *)

PlanRunning == plan.status = "running"

\* the lookup keys that callers of maintain pass
Keys == {<<0>>, <<1>>}

\* a call of the planner: steps is the Vec<Step> it returns, empty for the
\* methods that return none and for a call that panics
PlanStep(op, arg, pl, steps) ==
    /\ plan' = pl
    /\ call' = [op |-> op, arg |-> arg]
    /\ ret' = [ok |-> pl.status = "running",
               v |-> IF pl.status = "running" THEN steps ELSE <<>>]
    /\ UNCHANGED <<self, authority, wstate, dom, boot>>

\* DataflowGraph::plan_transition
PlanTransition ==
    /\ PlanRunning /\ plan.active = <<>>
    /\ PlanStep("plan_transition", 0, [plan EXCEPT !.active = <<Plan_new(plan.df)>>], <<>>)

AddNode(parents) ==
    /\ PlanRunning /\ plan.active # <<>>
    /\ Len(plan.active[1].next_graph.nodes) < MaxPlanNodes
    /\ PlanStep("add_node", parents, Plan_add_node(plan, 0, parents), <<>>)

Maintain(n, key) ==
    /\ PlanRunning /\ plan.active # <<>>
    /\ n \in NodeIndices(plan.active[1].next_graph)
    /\ PlanStep("maintain", [n |-> n, key |-> key], Plan_maintain(plan, n, key), <<>>)

Commit ==
    /\ PlanRunning /\ plan.active # <<>>
    /\ PlanStep("commit", 0, Plan_commit(plan), Plan_commit_steps(plan))

DropPlan ==
    /\ PlanRunning /\ plan.active # <<>>
    /\ PlanStep("drop", 0, Plan_drop(plan), <<>>)

PlanNext ==
    \/ PlanTransition
    \/ \E S \in SUBSET (1..(MaxPlanNodes + 1)) : AddNode(SetToSeqAsc(S))
    \/ \E n \in 1..MaxPlanNodes, key \in Keys : Maintain(n, key)
    \/ Commit
    \/ DropPlan

PlanSpec == Init /\ [][PlanNext]_vars

(* The domains on their own *)

DomStep(op, arg, d1) ==
    /\ dom' = d1
    /\ call' = [op |-> op, arg |-> arg]
    /\ UNCHANGED <<self, authority, wstate, ret, plan, boot>>

\* a client writes a row with key k to the base
Write(k) ==
    /\ dom.writes < MaxWrites
    /\ DomStep("write", k, base_write(dom, k))

\* a delta that has to consult key k arrives at the destination
Input(k) ==
    /\ dom.deltas < MaxDeltas
    /\ DomStep("input", k, on_input(dom, k))

\* the destination domain takes the next packet of its inbox
Receive ==
    /\ dom.chan # <<>>
    /\ \E p \in {dequeue(dom.chan).head} :
          DomStep("receive", p.key,
                  IF p.type = "Message"
                  THEN on_message(taken_down(dom), p)
                  ELSE on_replay_piece(taken_down(dom), p))

\* the source domain takes the next replay request
Serve(first) ==
    /\ dom.req # <<>>
    /\ \E r \in {dequeue(dom.req).head} :
          /\ first = 0 \/ first < Len(source_rows(dom, r.key))
          /\ DomStep("serve", r.key, on_replay_request(taken_up(dom), r, first))

\* the destination evicts a key
Evict(k) ==
    /\ dom.evicts < MaxEvicts
    /\ dom.st[k].filled
    /\ DomStep("evict", k, evict(dom, k))

\* a client reads key k through the view, with block = true
Lookup(k) ==
    /\ dom.reads < MaxReads
    /\ DomStep("lookup", k, view_lookup(dom, k))

\* flush_partial reaches the destination: every filled key is evicted
Flush ==
    /\ dom.evicts < MaxEvicts
    /\ \E k \in DKeys : dom.st[k].filled
    /\ DomStep("flush", 0, evict_all(dom))

DomNext ==
    \/ \E k \in DKeys : Write(k)
    \/ \E k \in DKeys : Input(k)
    \/ Receive
    \/ \E first \in 0..MaxWrites : Serve(first)
    \/ \E k \in DKeys : Evict(k)

DomSpec == Init /\ [][DomNext]_vars

\* the same with clients that read through the view, and flush_partial
ViewNext ==
    \/ DomNext
    \/ \E k \in DKeys : Lookup(k)
    \/ Flush

ViewSpec == Init /\ [][ViewNext]_vars

\* the same for a domain that is booted
BootStep(op, arg, b1) ==
    /\ boot' = b1
    /\ call' = [op |-> op, arg |-> arg]
    /\ UNCHANGED <<self, authority, wstate, ret, plan, dom>>

\* DomainHandle::new sends the next shard to its worker
Assign ==
    /\ boot.pc = "assign"
    /\ BootStep("assign", Len(boot.assignments), assign_shard(boot))

\* the domain of a shard that was assigned starts and reports Booted
DomainBoots(i) ==
    /\ boot.pc \in {"assign", "poll"}
    /\ i < Len(boot.assignments)
    /\ i \notin boot.up
    /\ wstate[boot.assignments[i + 1]] = "running"
    /\ BootStep("boots", i, domain_boots(boot, i))

\* the polling loop takes a reply from one of the control connections
Poll(k) ==
    /\ boot.pc = "poll"
    /\ k \in DOMAIN boot.cr
    /\ BootStep("poll", boot.cr[k].shard,
                on_booted([boot EXCEPT !.cr = [j \in 1..(Len(@) - 1) |->
                                                 IF j < k THEN @[j] ELSE @[j + 1]]],
                          boot.cr[k]))

BootInit ==
    /\ authority = ControllerState_new
    /\ self = ControllerInner_new(authority)
    /\ wstate = [w \in Workers |-> "running"]
    /\ call = NoCall
    /\ ret = Ok("new")
    /\ plan = NoPlan
    /\ dom = NoDomain
    /\ boot \in {DomainHandle_new(n, p) : n \in 0..MaxShards, p \in 0..(MaxWorkers - 1)}

BootNext ==
    \/ Assign
    \/ \E i \in 0..(MaxShards - 1) : DomainBoots(i)
    \/ \E k \in 1..MaxShards : Poll(k)
    \/ \E w \in Workers : Crash(w)

BootSpec == BootInit /\ [][BootNext]_vars

\* workers that register, send heartbeats and fail, while time passes
LiveNext ==
    \/ \E w \in Workers : Register(w)
    \/ \E w \in Workers : Heartbeat(w)
    \/ \E w \in Workers : Crash(w)
    \/ Tick

LiveSpec == Init /\ [][LiveNext]_vars

\* Time passes, and a worker that runs keeps sending its heartbeats.
LiveFairSpec ==
    LiveSpec /\ WF_vars(Tick) /\ \A w \in Workers : WF_vars(Heartbeat(w))

\* the same with one recipe installed on the workers, and nodes removed by hand
FailTexts == { <<"A", "q1">>, <<"A", "q1", "q2">> }

FailNext ==
    \/ LiveNext
    \/ \E t \in FailTexts : self.recipe.version = 0 /\ InstallRecipe(t)
    \/ \E n \in 2..MaxRemoved : RemoveNode(n)

FailSpec == Init /\ [][FailNext]_vars

\* the same with every domain split in two shards
Sharding == 2

ShardInit ==
    /\ authority = [ControllerState_new EXCEPT !.config.sharding = Sharding]
    /\ self = ControllerInner_new(authority)
    /\ wstate = [w \in Workers |-> "idle"]
    /\ call = NoCall
    /\ ret = Ok("new")
    /\ plan = NoPlan
    /\ dom = NoDomain
    /\ boot = NoBoot

ShardSpec == ShardInit /\ [][FailNext]_vars

\* recipes that grow while workers register and stop: migrations that have to
\* wait for domains on workers that no longer answer
WaitNext ==
    \/ \E w \in Workers : Register(w)
    \/ \E w \in Workers : Crash(w)
    \/ \E t \in FailTexts : self.recipe.version = 0 /\ InstallRecipe(t)
    \/ \E t \in Texts : ExtendRecipe(t)

WaitSpec == Init /\ [][WaitNext]_vars

\* Another controller instance takes over: the authority stores the next
\* epoch for it.  The instance that runs as `self` keeps its own epoch.
Elected ==
    /\ authority.epoch < MaxEpoch
    /\ authority' = [authority EXCEPT !.epoch = @ + 1]
    /\ call' = [op |-> "elected", arg |-> authority.epoch + 1]
    /\ UNCHANGED <<self, wstate, ret, plan, dom, boot>>

\* the controller of the stored epoch installs a recipe: its closure of
\* read_modify_write runs with state.epoch = self.epoch
Successor(t) ==
    /\ authority.epoch > self.epoch
    /\ authority.recipe_version < MaxVersion
    /\ \E w \in {install_persist(authority,
                       [epoch |-> authority.epoch,
                        recipe |-> [Recipe_blank EXCEPT
                                       !.version = authority.recipe_version + 1]], t)} :
          authority' = w.state
    /\ call' = [op |-> "successor", arg |-> t]
    /\ UNCHANGED <<self, wstate, ret, plan, dom, boot>>

\* two controllers of different epochs write to the one authority
FenceNext ==
    \/ \E w \in Workers : Register(w)
    \/ \E t \in Texts : ExtendRecipe(t)
    \/ \E t \in Texts : InstallRecipe(t)
    \/ Elected
    \/ \E t \in FailTexts : Successor(t)

FenceSpec == Init /\ [][FenceNext]_vars

\* The controller process is replaced: the new instance is elected, the
\* authority stores the next epoch, and ControllerInner::new builds the
\* instance from the stored state.  The worker processes go on running and
\* have to register with the new instance.
Restart ==
    /\ authority.epoch < MaxEpoch
    /\ \E st \in {[authority EXCEPT !.epoch = @ + 1]} :
          /\ authority' = st
          /\ self' = ControllerInner_new(st)
    /\ call' = [op |-> "restart", arg |-> 0]
    /\ ret' = Ok("new")
    /\ UNCHANGED <<wstate, plan, dom, boot>>

\* a controller configured with a quorum of two workers
RecoverQuorum == 2

RecoverInit ==
    /\ authority = [ControllerState_new EXCEPT !.config.quorum = RecoverQuorum]
    /\ self = ControllerInner_new(authority)
    /\ wstate = [w \in Workers |-> "idle"]
    /\ call = NoCall
    /\ ret = Ok("new")
    /\ plan = NoPlan
    /\ dom = NoDomain
    /\ boot = NoBoot

RecoverTexts == { <<"q1">>, <<"q2">> }

\* recipes are persisted, the controller restarts and the workers register
\* again, send heartbeats and fail while the recovery is pending
RecoverNext ==
    \/ LiveNext
    \/ \E t \in FailTexts : self.recipe.version = 0 /\ InstallRecipe(t)
    \/ \E t \in RecoverTexts : ExtendRecipe(t)
    \/ Restart

RecoverSpec == RecoverInit /\ [][RecoverNext]_vars

\* every shard reports one byte for each node
UnitSizes == [i \in 1..Sharding |-> 1]

\* the sizes the shards of a domain may report
Sizes == [1..Sharding -> 0..MaxBytes]

Methods == {"GET", "POST"}

Paths ==
    {"/graph", "/graphviz", "/get_statistics", "/flush_partial", "/inputs", "/instances",
     "/extend_recipe", "/install_recipe", "/remove_node", "/nope"}

NotJson == [json |-> FALSE, v |-> <<>>]

Json(v) == [json |-> TRUE, v |-> v]

\* requests of every kind, before and after the workers have registered and
\* after a restart with recipes to recover
GateNext ==
    \/ \E w \in Workers : Register(w)
    \/ \E m \in Methods, p \in Paths \ {"/remove_node"},
          b \in {NotJson} \cup {Json(t) : t \in FailTexts},
          o \in Orders(DOMAIN self.domains) : Request(m, p, b, o, UnitSizes)
    \/ \E m \in Methods, n \in 2..MaxRemoved, o \in Orders(DOMAIN self.domains) :
          Request(m, "/remove_node", Json(n), o, UnitSizes)
    \/ \E m \in Methods, o \in Orders(DOMAIN self.domains) :
          Request(m, "/remove_node", NotJson, o, UnitSizes)
    \/ Restart

GateSpec == RecoverInit /\ [][GateNext]_vars

\* statistics and evictions are requested while workers fail
StatNext ==
    \/ LiveNext
    \/ \E t \in FailTexts : self.recipe.version = 0 /\ InstallRecipe(t)
    \/ \E p \in {"/get_statistics", "/flush_partial"}, o \in Orders(DOMAIN self.domains) :
          Request("GET", p, NotJson, o, UnitSizes)

StatSpec == Init /\ [][StatNext]_vars

\* recipes are installed on sharded domains and the partial state is flushed
FlushNext ==
    \/ \E w \in Workers : Register(w)
    \/ \E t \in FailTexts : self.recipe.version = 0 /\ InstallRecipe(t)
    \/ \E o \in Orders(DOMAIN self.domains), sizes \in Sizes :
          Request("GET", "/flush_partial", NotJson, o, sizes)

FlushSpec == ShardInit /\ [][FlushNext]_vars

----------------------------------------------------------------------------
(* Properties of the recipe handlers *)

RecipeCall(c) == c.op \in {"extend_recipe", "install_recipe"}

Migrations(log) == SelectSeq(log, LAMBDA ev : ev.type = "migration")

ApplyFailed(log) == \E i \in 1..Len(log) : log[i].type = "migration" /\ ~log[i].ok

\* C1: whenever the activation inside apply_recipe fails, the graph
\* (ingredients, domains) and the recipe of the controller are what they were
\* before the migration started.
C1_FailedActivationRolledBack ==
    [][(RecipeCall(call') /\ ApplyFailed(self'.log)) =>
            /\ self'.ingredients = self.ingredients
            /\ self'.domains = self.domains
            /\ self'.recipe = self.recipe]_vars

\* C2: a text the parser rejects makes extend_recipe / install_recipe return
\* Err without starting a migration and without changing the recipe, the
\* graph or the persisted state.
C2_RejectedTextChangesNothing ==
    [][(RecipeCall(call') /\ ~Recipe_from_str(call'.arg).ok) =>
            /\ ~ret'.ok
            /\ Migrations(self'.log) = <<>>
            /\ self'.recipe = self.recipe
            /\ self'.ingredients = self.ingredients
            /\ self'.domains = self.domains
            /\ authority' = authority]_vars

C2_Witness ==
    /\ call.op = "extend_recipe"
    /\ ret = Err("failed to extend recipe")
    /\ self.recipe.expressions # {}
    /\ authority.recipes # <<>>

\* C10: a successful extend_recipe(t) appends t to the persisted recipes, a
\* successful install_recipe(t) leaves exactly <<t>>; either way the persisted
\* recipe_version is the version of the controller's recipe, which the call
\* has raised.
C10_ExtendAppendsInstallReplaces ==
    [][(RecipeCall(call') /\ ret'.ok) =>
            /\ call'.op = "extend_recipe" =>
                    authority'.recipes = Append(authority.recipes, call'.arg)
            /\ call'.op = "install_recipe" => authority'.recipes = <<call'.arg>>
            /\ authority'.recipe_version = self'.recipe.version
            /\ self'.recipe.version > self.recipe.version]_vars

C10_Witness ==
    /\ call.op = "extend_recipe"
    /\ ret.ok
    /\ Len(authority.recipes) = 2
    /\ authority.recipe_version = 2

----------------------------------------------------------------------------
(* Properties of the removals of apply_recipe *)

RECURSIVE ReachFrom(_, _)
ReachFrom(g, S) ==
    LET T == S \cup {e[2] : e \in {x \in g.edges : x[1] \in S}}
    IN IF T = S THEN S ELSE ReachFrom(g, T)

\* the nodes strictly downstream of n
Downstream(g, n) == ReachFrom(g, {n}) \ {n}

LeafRemovedBefore(log, i, n) ==
    \E j \in 1..(i - 1) : log[j].type = "remove_leaf" /\ log[j].leaf = n

NodeRemovedBefore(log, i, n) ==
    \E j \in 1..(i - 1) : log[j].type = "remove_nodes" /\ n \in Range(log[j].nodes)

RemovalsOrdered(g, g1, log, reported) ==
    LET bases == {n \in Range(reported) : is_base(g, n)}
        others == Range(reported) \ bases
    IN \A i \in 1..Len(log) :
         /\ log[i].type = "remove_leaf" =>
               \A n \in others \cap Downstream(g, log[i].leaf) : LeafRemovedBefore(log, i, n)
         /\ log[i].type = "remove_nodes" =>
               \A b \in bases \cap Range(log[i].nodes) :
                   /\ \A n \in others : LeafRemovedBefore(log, i, n)
                   /\ \A c \in Range(Outgoing(g, b)) : NodeRemovedBefore(log, i, c)
                   /\ Outgoing(g1, b) = <<>>

\* C9: when a successful activation reports removed leaves, each non-base
\* leaf is removed only after every reported leaf downstream of it, every
\* non-base leaf is removed before any base, and a base is removed only once
\* its children are gone and it has no outgoing edge left.
C9_RemovalsReverseTopoBasesLast ==
    [][(RecipeCall(call') /\ Migrations(self'.log) # <<>> /\ Migrations(self'.log)[1].ok) =>
            RemovalsOrdered(self.ingredients, self'.ingredients, self'.log,
                            Migrations(self'.log)[1].removed_leaves)]_vars

C9_Witness ==
    /\ call.op = "install_recipe"
    /\ ret.ok
    /\ Cardinality({i \in 1..Len(self.log) : self.log[i].type = "remove_leaf"}) >= 2
    /\ \E i \in 1..Len(self.log) :
          /\ self.log[i].type = "remove_nodes"
          /\ \E n \in Range(self.log[i].nodes) : self.ingredients.nodes[n].kind = "base"

----------------------------------------------------------------------------
(* Properties of the failure detector *)

Registered(s) == DOMAIN s.workers

Healthy(s, w) == w \in Registered(s) /\ s.workers[w].healthy

Failed(s, w) == w \in Registered(s) /\ ~s.workers[w].healthy

\* the worker was healthy before the step and is marked failed after it
Flagged(w) == Healthy(self, w) /\ Failed(self', w)

OlderThan(s, w, d) == s.workers[w].last_heartbeat > d

\* C4 as stated: after every liveness check (each handled heartbeat) no
\* worker is left healthy whose last heartbeat is older than 3 x heartbeat_every.
C4_NoHealthyWorkerOlderThan3H ==
    call.op = "heartbeat" =>
        \A w \in Registered(self) :
            Healthy(self, w) => ~OlderThan(self, w, 3 * heartbeat_every)

\* C4 amended: a liveness check that scans the workers (more than
\* healthcheck_every has passed since the last scan) leaves no worker healthy
\* whose last heartbeat is older than 4 x heartbeat_every; and when it marks a
\* worker failed it leaves none healthy that is older than 3 x heartbeat_every.
C4_ScanLeavesNoHealthyWorkerOlderThan4H ==
    [][(call'.op = "heartbeat" /\ self.last_checked_workers > healthcheck_every) =>
            /\ \A w \in Registered(self') :
                  Healthy(self', w) => ~OlderThan(self', w, 4 * heartbeat_every)
            /\ (\E v \in Workers : Flagged(v)) =>
                  \A w \in Registered(self') :
                      Healthy(self', w) => ~OlderThan(self', w, 3 * heartbeat_every)]_vars

\* a scan has just marked a worker failed while the sender stays healthy
C4_Witness ==
    /\ call.op = "heartbeat"
    /\ Healthy(self, call.arg)
    /\ \E w \in Registered(self) :
          Failed(self, w) /\ OlderThan(self, w, 4 * heartbeat_every)

\* C5: a worker's healthy flag goes from true to false only in a liveness
\* check, only when its last recorded heartbeat is older than
\* 3 x heartbeat_every, and never for the worker whose heartbeat is being
\* recorded.
C5_NoFalseFailureDetection ==
    [][\A w \in Workers :
          Flagged(w) =>
              /\ call'.op = "heartbeat"
              /\ call'.arg # w
              /\ OlderThan(self, w, 3 * heartbeat_every)]_vars

\* a worker was marked failed while another one, silent for exactly
\* 3 x heartbeat_every, was left alone
C5_Witness ==
    /\ call.op = "heartbeat"
    /\ \E w \in Registered(self) : Failed(self, w) /\ OlderThan(self, w, 3 * heartbeat_every)
    /\ \E w \in Registered(self) : Healthy(self, w)

Stopped(w) == w \in Registered(self) /\ wstate[w] \in {"crashed", "hung"}

HeartbeatsArrive(w) == \E v \in Workers \ {w} : wstate[v] = "running"

\* C6 as stated: every registered worker that stops sending heartbeats is
\* eventually marked failed, whatever the other workers do.
C6_StoppedWorkerEventuallyFailed ==
    \A w \in Workers : Stopped(w) ~> Failed(self, w)

\* C6 amended: a registered worker that stops sending heartbeats is
\* eventually marked failed as long as the controller runs and some other
\* worker keeps sending heartbeats; marking it failed and handling the failure
\* (handle_failed_workers with that worker) happen in the same liveness check.
C6_StoppedWorkerFailedWhileHeartbeatsArrive ==
    /\ \A w \in Workers :
          Stopped(w) ~> (Failed(self, w) \/ ~HeartbeatsArrive(w) \/ ~Running(self))
    /\ [][\A w \in Workers :
            Flagged(w) =>
                \E i \in 1..Len(self'.log) :
                    /\ self'.log[i].type = "handle_failed_workers"
                    /\ w \in Range(self'.log[i].failed)]_vars

\* a stopped worker has been marked failed by the heartbeat of another one
C6_Witness ==
    /\ call.op = "heartbeat"
    /\ wstate[call.arg] = "running"
    /\ \E w \in Workers : Stopped(w) /\ Failed(self, w)

----------------------------------------------------------------------------
(* Properties of the recovery from a worker failure *)

IsEvent(log, i, type) == log[i].type = type

EventsOf(log, type) == {i \in 1..Len(log) : IsEvent(log, i, type)}

\* the workers handle_failed_workers was called with
FailedWorkers(log) ==
    UNION {Range(log[i].failed) : i \in EventsOf(log, "handle_failed_workers")}

\* the live nodes of the domains that have a shard on one of the workers F
NodesOn(s, F) ==
    {n \in NodeIndices(s.ingredients) :
        /\ n # source
        /\ ~is_dropped(s.ingredients, n)
        /\ s.ingredients.nodes[n].domain \in DOMAIN s.domains
        /\ Range(s.domains[s.ingredients.nodes[n].domain]) \cap F # {}}

\* the queries of the recipe that own a node on or downstream of the workers F
AffectedQueries(s, F) ==
    {q \in s.recipe.expressions :
        \E n \in ReachFrom(s.ingredients, NodesOn(s, F)) : s.ingredients.nodes[n].name = q}

LiveNodesOf(g, q) == {n \in NodeIndices(g) : g.nodes[n].name = q /\ ~is_dropped(g, n)}

RemovedThenReinstalled(s, s1) ==
    LET log == s1.log
        migs == Migrations(log)
        second == CHOOSE i \in EventsOf(log, "migration") :
                      \E j \in EventsOf(log, "migration") : j < i
        affected == AffectedQueries(s, FailedWorkers(log))
    IN /\ migs # <<>>
       /\ Len(migs) <= 2
       /\ migs[1].expressions = s.recipe.expressions \ affected
       /\ Len(migs) = 2 =>
             /\ migs[1].ok
             /\ migs[2].expressions = s.recipe.expressions
             /\ \A i \in EventsOf(log, "remove_leaf") \cup EventsOf(log, "remove_nodes") :
                   i < second
             /\ \A q \in affected :
                   \A n \in LiveNodesOf(s.ingredients, q) : is_dropped(s1.ingredients, n)
       /\ Running(s1) =>
             /\ Len(migs) = 2
             /\ s1.recipe.expressions = s.recipe.expressions
             /\ \A q \in affected : LiveNodesOf(s1.ingredients, q) # {}

\* C7: handle_failed_workers first applies the recovery recipe, which is the
\* recipe without every query that owns a node on or downstream of a failed
\* worker, and applies the original recipe only after all the removals of
\* that migration; when it returns the controller's recipe has the queries it
\* had before, each with live nodes again.
C7_AffectedQueriesRemovedThenReinstalled ==
    [][(call'.op = "heartbeat" /\ EventsOf(self'.log, "handle_failed_workers") # {}) =>
            RemovedThenReinstalled(self, self')]_vars

C7_Witness ==
    /\ call.op = "heartbeat"
    /\ Running(self)
    /\ EventsOf(self.log, "handle_failed_workers") # {}
    /\ Len(Migrations(self.log)) = 2
    /\ Migrations(self.log)[1].expressions # Migrations(self.log)[2].expressions
    /\ Migrations(self.log)[2].expressions = self.recipe.expressions
    /\ EventsOf(self.log, "remove_leaf") # {}

\* the send of RemoveNodes to domain d: the first shard that is not on a
\* healthy, reachable worker decides
SendRefused(s, d) ==
    \E k \in 1..Len(s.domains[d]) :
        /\ s.workers[s.domains[d][k]].healthy
        /\ wstate[s.domains[d][k]] = "crashed"
        /\ \A j \in 1..(k - 1) : s.workers[s.domains[d][j]].healthy

SendSwallowed(s, d) ==
    \E k \in 1..Len(s.domains[d]) :
        /\ ~s.workers[s.domains[d][k]].healthy
        /\ \A j \in 1..(k - 1) :
              s.workers[s.domains[d][j]].healthy /\ wstate[s.domains[d][j]] # "crashed"

DomainsOf(s, nodes) == {s.ingredients.nodes[n].domain : n \in Range(nodes)}

RemoveFatal(s) == s.status = "panic: failed to remove nodes"

Refused(s, i) == \E d \in DomainsOf(s, s.log[i].nodes) : SendRefused(s, d)

\* C8: every remove_nodes call marks its nodes removed; a send that fails
\* only because the worker is marked failed does not stop it (remove_nodes
\* returns Ok and the handler goes on), and it panics exactly when a send to
\* a worker that still counts as healthy is refused.
C8_SendToFailedWorkerSwallowed ==
    [][call'.op \in {"remove_node", "heartbeat", "install_recipe"} =>
       /\ \A i \in EventsOf(self'.log, "remove_nodes") :
             /\ \A n \in Range(self'.log[i].nodes) : is_dropped(self'.ingredients, n)
             /\ Refused(self', i) =>
                   /\ RemoveFatal(self')
                   /\ \A j \in EventsOf(self'.log, "remove_nodes") : j <= i
       /\ (\A i \in EventsOf(self'.log, "remove_nodes") : ~Refused(self', i)) =>
             /\ ~RemoveFatal(self')
             /\ call'.op = "remove_node" => ret'.ok]_vars

\* the recovery removed nodes on the worker it had just marked failed, the
\* packet for their domain was not sent, and the handler went on to the end
C8_Witness ==
    /\ call.op = "heartbeat"
    /\ ret.ok
    /\ \E i \in EventsOf(self.log, "remove_nodes") :
          \E d \in DomainsOf(self, self.log[i].nodes) :
              /\ SendSwallowed(self, d)
              /\ \A j \in EventsOf(self.log, "send") : self.log[j].domain # d
              /\ \A n \in Range(self.log[i].nodes) : is_dropped(self.ingredients, n)

----------------------------------------------------------------------------
(* Properties of the planner *)

\* the operators and the edges of a graph, without the planner's attributes
Shape(g) == [operators |-> [n \in DOMAIN g.nodes |-> g.nodes[n].operator],
             edges |-> g.edges]

Proposed(pl) == pl.active[1].next_graph

\* C3: plan_transition, add_node, maintain and dropping the Plan leave the
\* DataflowGraph as it was, whether or not the call panics; add_node and
\* maintain change nothing but the proposed graph and the set of new nodes;
\* commit makes the DataflowGraph the proposed graph.
C3_PlanStagesItsChanges ==
    [][/\ call'.op \in {"plan_transition", "add_node", "maintain", "drop"} =>
              plan'.df = plan.df
       /\ call'.op = "commit" =>
              /\ Shape(plan'.df.graph) = Shape(Proposed(plan))
              /\ plan'.active = <<>>]_vars

\* a Plan with several nodes and edges has been committed
C3_Witness ==
    /\ call.op = "commit"
    /\ plan.active = <<>>
    /\ Len(plan.df.graph.nodes) >= 2
    /\ Cardinality(plan.df.graph.edges) >= 3

----------------------------------------------------------------------------
(* Errors of the recipe calls *)

\* the call returned an Err of its own: the gate was open and no handler
\* panicked or blocked
RecipeFailed(c, r, s) ==
    RecipeCall(c) /\ ~r.ok /\ Running(s) /\ r.v # "SERVICE_UNAVAILABLE"

\* the error of the parser or of the activation that made the call fail
Underlying(c, log) ==
    IF ~Recipe_from_str(c.arg).ok THEN Recipe_from_str(c.arg).e
    ELSE LET failed == SelectSeq(log, LAMBDA ev : ev.type = "migration" /\ ~ev.ok)
         IN failed[1].e

\* C14 as stated: the Err of extend_recipe / install_recipe is the
\* underlying parse or activation error, unchanged.
C14_ErrorsReachCallerVerbatim ==
    [][RecipeFailed(call', ret', self') => ret'.v = Underlying(call', self'.log)]_vars

\* C14, amended: an activation error reaches the caller behind the prefix
\* "failed to activate recipe: "; a parse error is replaced by the fixed
\* message of the handler, whatever the parser said.
C14_ErrorsNameTheStage ==
    [][RecipeFailed(call', ret', self') =>
          IF ~Recipe_from_str(call'.arg).ok
          THEN ret'.v = IF call'.op = "extend_recipe" THEN "failed to extend recipe"
                        ELSE "failed to parse recipe"
          ELSE /\ ApplyFailed(self'.log)
               /\ ret'.v = "failed to activate recipe: " \o Underlying(call', self'.log)]_vars

\* an activation that failed for want of the table A has been reported
C14_Witness ==
    /\ RecipeCall(call) /\ ApplyFailed(self.log)
    /\ ret = Err("failed to activate recipe: unresolvable dependency A")

----------------------------------------------------------------------------
(* Waiting for the domains *)

\* the handler has waited for the acknowledgement of a domain with a shard
\* on a worker that has stopped
AwaitedStopped(s) ==
    \E i \in EventsOf(s.log, "wait_for_ack") :
        \E w \in Range(s.domains[s.log[i].domain]) : wstate[w] # "running"

\* C15: a recipe call whose migration waits for the acknowledgement of a
\* domain that never replies stops waiting: it returns an error, and the
\* graph is what it was before the migration.
C15_WaitEndsAtDeadline ==
    [][(RecipeCall(call') /\ AwaitedStopped(self')) =>
            /\ Running(self')
            /\ ~ret'.ok
            /\ self'.ingredients = self.ingredients]_vars

----------------------------------------------------------------------------
(* One migration at a time *)

\* every migration of the handler has committed before the next one starts;
\* only the last one may be cut short, by a handler that panics or blocks
MigrationsInTurn(s) ==
    \A i \in EventsOf(s.log, "migration") :
        \/ \E j \in EventsOf(s.log, "commit") :
              /\ j > i
              /\ \A k \in EventsOf(s.log, "migration") : k > i => k > j
        \/ /\ ~Running(s)
           /\ \A k \in EventsOf(s.log, "migration") : k <= i

\* the handler ran a migration or removed nodes
ChangedGraph(log) ==
    \E i \in 1..Len(log) : log[i].type \in {"migration", "remove_leaf", "remove_nodes"}

\* C16: the migrations of a handler run one after the other, each committed
\* before the next starts, and a step changes the graph only if its handler
\* ran a migration or removed nodes; workers and time never change it.
C16_OneMigrationAtATime ==
    [][/\ MigrationsInTurn(self')
       /\ self'.ingredients # self.ingredients =>
              /\ call'.op \in {"extend_recipe", "install_recipe", "remove_node",
                                "register", "heartbeat"}
              /\ ChangedGraph(self'.log)]_vars

\* a failure has been handled with two migrations, one after the other
C16_Witness ==
    /\ call.op = "heartbeat" /\ Running(self)
    /\ Cardinality(EventsOf(self.log, "migration")) = 2
    /\ Cardinality(EventsOf(self.log, "commit")) = 2
    /\ self.recipe.expressions # {}
    /\ EventsOf(self.log, "AssignDomain") # {}

----------------------------------------------------------------------------
(* Properties of the domain runtime and the replay engine *)

\* nothing is in flight and no replay is outstanding
Quiescent(d) == d.chan = <<>> /\ d.req = <<>> /\ d.outstanding = {}

\* the same rows, each once
SameRows(a, b) ==
    /\ Len(a) = Len(b)
    /\ Range(a) = Range(b)
    /\ Cardinality(Range(a)) = Len(a)

\* the packet the destination takes in this step
Received(type) == call'.op = "receive" /\ dom.chan[1].type = type

\* C17: after quiescence a filled key of the Partial state holds the rows the
\* state holds with partial materialization disabled, each row once; and a
\* write is dropped when its key is missing and applied when it is filled.
C17_PartialEqualsFull ==
    [][/\ Quiescent(dom') =>
              \A k \in DKeys :
                  dom'.st[k].filled => SameRows(dom'.st[k].rows, dom'.full[k])
       /\ Received("Message") =>
              LET p == dom.chan[1]
              IN IF dom.st[p.key].filled
                 THEN dom'.st[p.key].rows = Append(dom.st[p.key].rows, p.rows[1])
                 ELSE dom'.st[p.key] = dom.st[p.key]]_vars

\* a key was filled by a replay and took a later write, and all is quiet
C17_Witness ==
    /\ Quiescent(dom)
    /\ call.op = "receive"
    /\ \E k \in DKeys :
          /\ dom.st[k].filled /\ Len(dom.st[k].rows) = 2
          /\ \E i \in 1..Len(dom.done) : dom.done[i].key = k /\ Len(dom.done[i].rows) = 1

\* the replays of key k on their way: requests going up, final pieces coming down
InFlight(d, k) ==
    Cardinality({i \in 1..Len(d.req) : d.req[i].key = k})
    + Cardinality({i \in 1..Len(d.chan) :
                     d.chan[i].type = "ReplayPiece" /\ d.chan[i].key = k /\ d.chan[i].last})

\* C18: a key has at most one replay on its way, exactly when it is
\* outstanding; a miss on a key with an outstanding replay buffers the delta
\* and sends no request.
C18_OneOutstandingReplay ==
    [][/\ \A k \in DKeys : InFlight(dom', k) = IF k \in dom'.outstanding THEN 1 ELSE 0
       /\ (call'.op = "input" /\ call'.arg \in dom.outstanding) =>
              /\ dom'.req = dom.req
              /\ dom'.waiting[call'.arg] = Append(dom.waiting[call'.arg], dom'.deltas)]_vars

\* two deltas wait for the one replay of their key
C18_Witness ==
    /\ call.op = "input"
    /\ Len(dom.waiting[call.arg]) = 2
    /\ InFlight(dom, call.arg) = 1

\* C19: a lookup hits only a key whose replay is complete, and then sees all
\* the rows of the key; a key with a replay outstanding is not filled,
\* whatever pieces have arrived; the Full state of the source answers every
\* request with the rows of the key, ending in a final piece.
C19_NoPartialRowSetVisible ==
    [][/\ \A k \in DKeys : dom'.st[k].filled => k \notin dom'.outstanding
       /\ (call'.op = "input" /\ lookup(dom.st, call'.arg).hit) =>
              /\ Len(dom'.done) = Len(dom.done) + 1
              /\ SameRows(dom'.done[Len(dom'.done)].rows, dom.full[call'.arg])
       /\ (call'.op = "input" /\ Len(dom'.done) > Len(dom.done)) =>
              lookup(dom.st, call'.arg).hit
       /\ call'.op = "serve" =>
              /\ dom'.chan[Len(dom'.chan)] =
                     Packet("ReplayPiece", call'.arg, dom'.chan[Len(dom'.chan)].rows, TRUE)
              /\ Len(dom'.chan) > Len(dom.chan)]_vars

\* a lookup has missed a key of which a first piece has arrived
C19_Witness ==
    /\ call.op = "input"
    /\ ~dom.st[call.arg].filled
    /\ dom.st[call.arg].rows # <<>>
    /\ dom.waiting[call.arg] # <<>>

\* the deltas processed in this step
Processed == SubSeq(dom'.done, Len(dom.done) + 1, Len(dom'.done))

\* how often delta id is buffered or processed
Occurrences(d, id) ==
    Cardinality({i \in 1..Len(d.done) : d.done[i].delta = id})
    + Cardinality({<<k, i>> \in DKeys \X (1..MaxDeltas + 1) :
                     i <= Len(d.waiting[k]) /\ d.waiting[k][i] = id})

\* C20: the deltas buffered for a key are processed in the step that marks
\* the key filled with the final piece, in the order they were buffered,
\* each seeing the filled state; no delta is lost or processed twice.
C20_BufferedDeltasDrainInOrder ==
    [][/\ \A id \in 1..dom'.deltas : Occurrences(dom', id) = 1
       /\ \A k \in DKeys :
              IF Received("ReplayPiece") /\ dom.chan[1].key = k /\ dom.chan[1].last
              THEN /\ dom'.st[k].filled
                   /\ dom'.waiting[k] = <<>>
                   /\ Processed = [i \in 1..Len(dom.waiting[k]) |->
                                     [delta |-> dom.waiting[k][i], key |-> k,
                                      buffered |-> TRUE, rows |-> dom'.st[k].rows]]
              ELSE \A i \in 1..Len(dom.waiting[k]) :
                      i <= Len(dom'.waiting[k]) /\ dom'.waiting[k][i] = dom.waiting[k][i]]_vars

\* two deltas buffered for the same key have been drained
C20_Witness ==
    /\ call.op = "receive"
    /\ Len(dom.done) = 2
    /\ dom.done[1].buffered /\ dom.done[2].buffered
    /\ dom.done[1].key = dom.done[2].key
    /\ dom.done[1].rows # <<>>

\* the Reader nodes of a graph
Readers(g) == {c \in NodeIndices(g) : g.nodes[c].operator = "Reader"}

\* C11: a maintain(n, key) call returns with a Reader among the children of
\* n in the proposed graph, and every Reader of the proposed graph then has
\* exactly one index, the lookup key it was asked to maintain.
C11_MaintainLeavesReaderWithOneIndex ==
    [][call'.op = "maintain" =>
          /\ ret'.ok /\ plan'.active # <<>>
          /\ \E c \in Range(Outgoing(Proposed(plan'), call'.arg.n)) :
                 /\ c \in Readers(Proposed(plan'))
                 /\ Proposed(plan').nodes[c].indices = {call'.arg.key}
          /\ \A c \in Readers(Proposed(plan')) :
                 Cardinality(Proposed(plan').nodes[c].indices) = 1]_vars

\* a graph without cycles: no node is reached from its own children
Acyclic(g) ==
    \A n \in NodeIndices(g) : n \notin ReachFrom(g, Range(Outgoing(g, n)))

\* C12: the DataflowGraph and the proposed graph of a Plan are acyclic, and
\* every node a Plan has added has an incoming edge from each reported
\* ancestor, all of them nodes that existed before it.
C12_GraphIsADag ==
    /\ Acyclic(plan.df.graph)
    /\ plan.active # <<>> =>
          /\ Acyclic(Proposed(plan))
          /\ \A n \in plan.active[1].new :
                 /\ Incoming(Proposed(plan), n) # <<>>
                 /\ \A p \in Range(Incoming(Proposed(plan), n)) : p < n

\* C13: the steps that commit returns hold, for every node added since the
\* Plan was created, an InstallNode step and a later ActivateNode step.
C13_CommitReturnsInstallThenActivate ==
    [][call'.op = "commit" =>
          /\ ret'.ok
          /\ \A n \in plan.active[1].new :
                 \E i, j \in 1..Len(ret'.v) :
                    /\ i < j
                    /\ ret'.v[i] = [step |-> "InstallNode", id |-> n]
                    /\ ret'.v[j] = [step |-> "ActivateNode", node |-> n]]_vars

----------------------------------------------------------------------------
(* Properties of the persisted state *)

\* C23: a call of extend_recipe / install_recipe whose activation fails
\* leaves the ControllerState stored in the authority as it was.
C23_FailedActivationNotPersisted ==
    [][(RecipeCall(call') /\ ApplyFailed(self'.log)) => authority' = authority]_vars

\* C24: the persisted recipe_version covers the persisted recipes:
\* recipe_version + 1 >= number of recipes, the assertion of the recovery path.
C24_PersistedVersionCoversRecipes ==
    authority.recipe_version + 1 >= Len(authority.recipes)

\* the stored state belongs to a newer controller than `self`
Fenced == authority.epoch > self.epoch

\* the call got as far as read_modify_write: apply_recipe ran and returned
Persisting(s) == Migrations(s.log) # <<>> /\ Running(s)

\* C25: while the stored epoch is greater than the controller's own, its
\* extend_recipe / install_recipe calls leave the stored state as it is and
\* return Err, "Failed to persist ..." whenever the call got to the
\* persistence step.
C25_OlderEpochNeverOverwrites ==
    [][(RecipeCall(call') /\ Fenced) =>
          /\ authority' = authority
          /\ ~ret'.ok
          /\ Persisting(self') =>
                ret' = Err(IF call'.op = "extend_recipe"
                           THEN "Failed to persist recipe extension"
                           ELSE "Failed to persist recipe installation")]_vars

\* the older controller has installed a recipe after the newer one stored
\* its own: the call failed to persist and the stored recipes are the
\* newer controller's
C25_Witness ==
    /\ Fenced
    /\ call.op = "install_recipe"
    /\ ret = Err("Failed to persist recipe installation")
    /\ authority.recipes # <<>>
    /\ authority.recipes # <<call.arg>>

----------------------------------------------------------------------------
(* Properties of the recovery of persisted recipes *)

NumWorkers(s) == Cardinality(DOMAIN s.workers)

\* the recipes of a pending recovery, none if no recovery is pending
Pending(s) == IF s.pending_recovery = <<>> THEN <<>> ELSE s.pending_recovery[1].recipes

\* the migrations of the log activate recipes 1..n of the list, in order:
\* the i-th activates a recipe holding the statements of the first i texts
AppliedInOrder(log, recipes, n) ==
    /\ Len(Migrations(log)) = n
    /\ \A i \in 1..n :
          Migrations(log)[i].expressions =
              UNION {Range(recipes[j]) : j \in 1..i}

\* C26: the pending recipes are re-applied, in their persisted order, by the
\* handle_register call that first brings the workers to the quorum, and by
\* no other handler; in that call the number of workers is the quorum and
\* the recipe version is 0, and it fails no assertion and no unwrap; with a
\* quorum of workers registered no recovery is pending.
C26_RecoveryFiresOnceAtQuorum ==
    [][/\ (call'.op = "register" /\ Pending(self) # <<>> /\ NumWorkers(self') >= self.quorum) =>
              /\ NumWorkers(self') = self.quorum
              /\ NumWorkers(self) < self.quorum
              /\ Recipe_version(self.recipe) = 0
              /\ self'.status # "panic: assertion failed"
              /\ self'.status # "panic: unwrap"
              /\ Pending(self') = <<>>
              /\ Running(self') =>
                    AppliedInOrder(self'.log, Pending(self), Len(Pending(self)))
       /\ (call'.op \in {"register", "heartbeat"}
              /\ ~(Pending(self) # <<>> /\ NumWorkers(self') >= self.quorum)) =>
              /\ Pending(self') = Pending(self)
              /\ call'.op = "register" => Migrations(self'.log) = <<>>
       /\ NumWorkers(self') >= self'.quorum => Pending(self') = <<>>]_vars

----------------------------------------------------------------------------
(* Properties of external_request *)

Route(c) == <<c.arg[1], c.arg[2]>>

\* the routes external_request knows, of those the model has
KnownRoutes == OpenRoutes \cup ReadRoutes \cup BodyRoutes \cup { <<"GET", "/flush_partial">> }

\* the request changed nothing: no migration, no eviction, no removal, and
\* nothing was persisted
Untouched == self' = Begin(self) /\ authority' = authority

\* while the gate is closed every route but the three open ones answers
\* SERVICE_UNAVAILABLE and changes nothing
GateClosedRefuses ==
    (call'.op = "request" /\ Unavailable(self) /\ Route(call') \notin OpenRoutes) =>
        ret' = Err("SERVICE_UNAVAILABLE") /\ Untouched

\* with the gate open an unknown method and path answers NOT_FOUND
UnknownRouteNotFound ==
    (call'.op = "request" /\ ~Unavailable(self) /\ Route(call') \notin KnownRoutes) =>
        ret' = Err("NOT_FOUND") /\ Untouched

\* C27 (as stated): while a recovery is pending or the quorum is not reached
\* every request but GET /graph, POST /graphviz and GET /get_statistics is
\* answered SERVICE_UNAVAILABLE and changes nothing; with the gate open an
\* unknown route answers NOT_FOUND and a body that is not valid JSON answers
\* BAD_REQUEST on every route behind the gate, both without a change of state.
C27_InvalidBodyAlwaysRefused ==
    [][/\ GateClosedRefuses
       /\ UnknownRouteNotFound
       /\ (/\ call'.op = "request" /\ ~Unavailable(self)
           /\ Route(call') \in KnownRoutes \ OpenRoutes
           /\ call'.arg[3] = "not json") =>
              ret' = Err("BAD_REQUEST") /\ Untouched]_vars

\* C27 (amended): the same, the body being parsed only by the routes that
\* take one (extend_recipe, install_recipe, remove_node): there a body that is
\* not valid JSON answers BAD_REQUEST and changes nothing.
C27_QuorumGate ==
    [][/\ GateClosedRefuses
       /\ UnknownRouteNotFound
       /\ (/\ call'.op = "request" /\ ~Unavailable(self)
           /\ Route(call') \in BodyRoutes
           /\ call'.arg[3] = "not json") =>
              ret' = Err("BAD_REQUEST") /\ Untouched]_vars

\* a well-formed install_recipe was refused while the recovery was pending
C27_Witness ==
    /\ call.op = "request"
    /\ call.arg = <<"POST", "/install_recipe", "json">>
    /\ self.pending_recovery # <<>>
    /\ ret = Err("SERVICE_UNAVAILABLE")

(* Properties of get_statistics and flush_partial *)

StatsCall(c) ==
    c.op = "request" /\ Route(c) \in { <<"GET", "/get_statistics">>, <<"GET", "/flush_partial">> }

\* every failure has been detected: the workers the controller takes for
\* healthy run
FailuresKnown == \A w \in DOMAIN self.workers : self.workers[w].healthy => wstate[w] = "running"

\* C28: get_statistics and flush_partial return a result, without a panic and
\* without waiting forever, in every state of the controller in which the
\* workers that do not run have been marked failed and their failure handled.
C28_StatisticsSurviveWorkerFailure ==
    [][(StatsCall(call') /\ FailuresKnown) => Running(self')]_vars

(* Properties of send_to_healthy *)

\* the packets the handler sent to shard i of domain d
SentTo(log, d, i) ==
    {log[k].packet : k \in {j \in 1..Len(log) :
                              log[j].type = "send" /\ log[j].domain = d /\ log[j].shard = i}}

\* the domains remove_nodes(removals) notifies
NotifiedDomains(s, removals) == {s.ingredients.nodes[n].domain : n \in Range(removals)}

\* every healthy shard of every domain that was to be told of a removal has
\* been sent the RemoveNodes packet of its domain
HealthyShardsReached(s) ==
    \A k \in 1..Len(s.log) :
        s.log[k].type = "remove_nodes" =>
            \A d \in NotifiedDomains(s, s.log[k].nodes) :
                \A i \in 1..Len(s.domains[d]) :
                    s.workers[s.domains[d][i]].healthy =>
                        RemoveNodes(s, d, s.log[k].nodes) \in SentTo(s.log, d, i)

\* no packet went to a shard on a worker marked failed
FailedShardsSkipped(s) ==
    \A k \in 1..Len(s.log) :
        s.log[k].type = "send" => s.workers[s.domains[s.log[k].domain][s.log[k].shard]].healthy

\* C29: the packet send_to_healthy is given reaches every shard of the domain
\* whose worker is healthy, wherever the shards on failed workers are, and no
\* shard on a worker marked failed (seen on the RemoveNodes packets of
\* remove_nodes, when no healthy worker has crashed).
C29_EveryHealthyShardReached ==
    [][FailuresKnown' => HealthyShardsReached(self') /\ FailedShardsSkipped(self')]_vars

(* Properties of get_failed_nodes *)

\* C30: for every worker handle_failed_workers is told has failed,
\* get_failed_nodes returns (it terminates, the graph being acyclic) a list
\* whose nodes are exactly the live nodes, the source left out, of the domains
\* with a shard on that worker, and all that is downstream of them in the graph.
C30_FailedNodesAreDownstreamClosure ==
    [][call'.op = "heartbeat" =>
       \A i \in EventsOf(self'.log, "handle_failed_workers") :
          /\ Acyclic(self.ingredients)
          /\ \A k \in DOMAIN self'.log[i].failed :
                Range(self'.log[i].nodes[k]) =
                    ReachFrom(self.ingredients, NodesOn(self, {self'.log[i].failed[k]}))]_vars

\* a worker was lost and a node of a domain that has no shard on it failed
\* with it, being downstream
C30_Witness ==
    \E i \in EventsOf(self.log, "handle_failed_workers") :
        \E k \in DOMAIN self.log[i].failed :
            \E n \in Range(self.log[i].nodes[k]) :
                self.log[i].failed[k] \notin Range(self.domains[self.ingredients.nodes[n].domain])

(* Properties of the channels between the domains *)

IsPrefix(a, b) == Len(a) <= Len(b) /\ SubSeq(b, 1, Len(a)) = a

SameKeyAcrossEviction(a, i, j) ==
    /\ i < j
    /\ a[i].key = a[j].key
    /\ a[i].evicts < a[j].evicts
    /\ a[i].writes = a[j].writes

\* C21 (as stated): a blocking lookup after an eviction returns the rows the
\* lookup of the same key returned before it, provided no base write happened
\* in between.
C21_EvictionKeepsAnswers ==
    \A i, j \in 1..Len(dom.answers) :
        SameKeyAcrossEviction(dom.answers, i, j) => dom.answers[i].rows = dom.answers[j].rows

\* C21 (amended): the same, provided also that every base write had reached
\* the view when the first lookup was answered (none was in flight).
C21_EvictionKeepsSettledAnswers ==
    \A i, j \in 1..Len(dom.answers) :
        (/\ SameKeyAcrossEviction(dom.answers, i, j)
         /\ dom.answers[i].applied = dom.answers[i].writes) =>
            dom.answers[i].rows = dom.answers[j].rows

\* a key with rows was read, evicted and read again
C21_Witness ==
    \E i, j \in 1..Len(dom.answers) :
        /\ SameKeyAcrossEviction(dom.answers, i, j)
        /\ dom.answers[i].applied = dom.answers[i].writes
        /\ dom.answers[i].rows # <<>>
        /\ dom.answers[j].rows = dom.answers[i].rows

(* Properties of the source node *)

\* C31: in every state of a controller that runs, every outgoing neighbour of
\* the source is a base node (the assertion of inputs() holds), also after
\* apply_recipe has removed a base.
C31_SourceFeedsOnlyBases ==
    Running(self) =>
        \A n \in Range(Outgoing(self.ingredients, source)) : is_base(self.ingredients, n)

(* Properties of remove_leaf *)

\* C32: when apply_recipe removes the leaves a recipe activation reports, in
\* reverse topological order, remove_leaf finds only readers among the children
\* of a leaf: unreachable!() is never hit.
C32_RemoveLeafFindsOnlyReaders ==
    [][RecipeCall(call') => self'.status # "panic: unreachable"]_vars

NoDuplicates(seq) == \A i, j \in 1..Len(seq) : i # j => seq[i] # seq[j]

\* C33: the list of removals remove_leaf hands to remove_nodes names each node
\* at most once, also when the leaf has a reader.
C33_RemovalsNameEachNodeOnce ==
    [][RecipeCall(call') =>
         \A i \in EventsOf(self'.log, "remove_nodes") : NoDuplicates(self'.log[i].nodes)]_vars

\* the remove_nodes calls that remove_leaf made
LeafRemovals(log) ==
    {i \in EventsOf(log, "remove_nodes") : i > 1 /\ log[i - 1].type = "remove_leaf"}

RemovedByLeaf(log) == UNION {Range(log[i].nodes) : i \in LeafRemovals(log)}

\* node c was put on a removal list before entry k of the list of call i
RemovedEarlier(log, c, i, k) ==
    \E j \in LeafRemovals(log) : \E m \in 1..Len(log[j].nodes) :
        /\ log[j].nodes[m] = c
        /\ j < i \/ (j = i /\ m < k)

\* a recipe call that only removed queries ran remove_leaf and returned
OnlyRemoved ==
    /\ RecipeCall(call')
    /\ Running(self')
    /\ Len(self'.ingredients.nodes) = Len(self.ingredients.nodes)
    /\ LeafRemovals(self'.log) # {}

FlushCall(c) == c.op = "request" /\ Route(c) = <<"GET", "/flush_partial">>

\* flush_partial has returned
Flushed == FlushCall(call) /\ Running(self)

\* the Evict packets flush_partial has handed to send_to_healthy
EvictPackets(log) ==
    SelectSeq(log, LAMBDA e : e.type = "send_to_healthy" /\ e.packet.type = "Evict")

\* the Evict packets the shards were sent, each with its shard
EvictSends(log) ==
    SelectSeq(log, LAMBDA e : e.type = "send" /\ e.packet.type = "Evict")

\* the statistics of a log that give a node as Partial, each with the shard
\* that reported it
RECURSIVE PartialReported(_)
PartialReported(log) ==
    IF log = <<>> THEN <<>>
    ELSE (IF log[1].type = "Statistics"
          THEN LET part == SelectSeq(log[1].stats, LAMBDA ns : ns.materialized = "Partial")
               IN [k \in 1..Len(part) |->
                      [domain |-> log[1].domain, shard |-> log[1].shard,
                       node |-> part[k].node, mem_size |-> part[k].mem_size]]
          ELSE <<>>)
         \o PartialReported(Tail(log))

RECURSIVE SumSeq(_)
SumSeq(seq) == IF seq = <<>> THEN 0 ELSE seq[1] + SumSeq(Tail(seq))

SumOf(seq, f(_)) == SumSeq([k \in DOMAIN seq |-> f(seq[k])])

\* the value flush_partial returned
Returned(log) == SumOf(SelectSeq(log, LAMBDA e : e.type = "flushed"), LAMBDA e : e.total)

\* every Evict packet names a node that a shard of its domain reported as
\* Partial, with the mem_size of that report: the packets are the reports of
\* Partial nodes, one for one and in their order
PacketForEachPartialReport(log) ==
    /\ Len(EvictPackets(log)) = Len(PartialReported(log))
    /\ \A k \in DOMAIN EvictPackets(log) :
          /\ EvictPackets(log)[k].domain = PartialReported(log)[k].domain
          /\ EvictPackets(log)[k].packet.node = PartialReported(log)[k].node
          /\ EvictPackets(log)[k].packet.num_bytes = PartialReported(log)[k].mem_size

\* no packet is for a node reported Full or not materialized
OnlyPartialEvicted(s) ==
    \A k \in DOMAIN EvictSends(s.log) :
        materialized(s.ingredients, EvictSends(s.log)[k].packet.node) = "Partial"

\* each packet goes to every shard of the domain of its node
EvictBroadcast(s) ==
    \A k \in DOMAIN EvictPackets(s.log) :
        \A i \in 1..Len(s.domains[EvictPackets(s.log)[k].domain]) :
            \E j \in DOMAIN EvictSends(s.log) :
                /\ EvictSends(s.log)[j].domain = EvictPackets(s.log)[k].domain
                /\ EvictSends(s.log)[j].shard = i
                /\ EvictSends(s.log)[j].packet = EvictPackets(s.log)[k].packet

\* C35: flush_partial hands send_to_healthy one Evict packet for every
\* report of a node as Partial, with num_bytes the mem_size of the report,
\* and none for a node that is Full or not materialized; it returns the sum
\* of the num_bytes of these packets. Each packet goes to every shard of
\* the domain, so the shards are asked for that sum once for each shard.
C35_EvictsExactlyPartialState ==
    Flushed =>
        /\ PacketForEachPartialReport(self.log)
        /\ OnlyPartialEvicted(self)
        /\ Returned(self.log) = SumOf(EvictPackets(self.log), LAMBDA e : e.packet.num_bytes)
        /\ EvictBroadcast(self)
        /\ SumOf(EvictSends(self.log), LAMBDA e : e.packet.num_bytes)
             = SumOf(EvictPackets(self.log),
                     LAMBDA e : e.packet.num_bytes * Len(self.domains[e.domain]))

\* two shards of a domain have reported different sizes of a partial node,
\* and the state flushed is not empty
C35_Witness ==
    /\ Flushed
    /\ Returned(self.log) > 0
    /\ \E j, k \in DOMAIN PartialReported(self.log) :
          /\ PartialReported(self.log)[j].node = PartialReported(self.log)[k].node
          /\ PartialReported(self.log)[j].shard # PartialReported(self.log)[k].shard
          /\ PartialReported(self.log)[j].mem_size # PartialReported(self.log)[k].mem_size
    /\ \E k \in DOMAIN self.log :
          /\ self.log[k].type = "Statistics"
          /\ \E i \in DOMAIN self.log[k].stats : self.log[k].stats[i].materialized = "Full"

(* Properties of DomainHandle::new *)

BootEvents(b, type) == SelectSeq(b.log, LAMBDA e : e.type = type)

\* the AssignDomain messages sent so far are for the shard indices 0, 1, ..
\* in turn, one each and none beyond the shards of the domain; the builder
\* of an unsharded domain carries no shard
OneAssignPerShard(b) ==
    /\ Len(BootEvents(b, "AssignDomain")) <= nshards(b)
    /\ \A k \in DOMAIN BootEvents(b, "AssignDomain") :
          /\ BootEvents(b, "AssignDomain")[k].i = k - 1
          /\ BootEvents(b, "AssignDomain")[k].nshards = nshards(b)
          /\ BootEvents(b, "AssignDomain")[k].shard
               = IF b.num_shards = 0 THEN <<>> ELSE <<k - 1>>
    /\ b.pc \in {"poll", "returned"} => Len(BootEvents(b, "AssignDomain")) = nshards(b)

\* a Booted reply has been received from each of the shards
AllShardsBooted(b) ==
    \A i \in 0..(nshards(b) - 1) :
        \E k \in DOMAIN BootEvents(b, "Booted") : BootEvents(b, "Booted")[k].shard = i

\* no DomainBooted is sent before the address it carries is registered
RegisteredBeforeBroadcast(b) ==
    \A k \in DOMAIN b.log :
        b.log[k].type = "DomainBooted" =>
            \E j \in 1..(k - 1) :
                /\ b.log[j].type = "insert_addr"
                /\ b.log[j].index = b.log[k].index
                /\ b.log[j].shard = b.log[k].shard
                /\ b.log[j].addr = b.log[k].addr

\* every Booted reply received has been registered and sent on to every
\* worker endpoint
EveryWorkerTold(b) ==
    \A k \in DOMAIN BootEvents(b, "Booted") :
        LET m == BootEvents(b, "Booted")[k]
        IN /\ m.shard \in DOMAIN b.coord /\ b.coord[m.shard] = m.addr
           /\ \A w \in Workers :
                 \E j \in DOMAIN BootEvents(b, "DomainBooted") :
                     LET e == BootEvents(b, "DomainBooted")[j]
                     IN e.to = w /\ e.index = idx /\ e.shard = m.shard /\ e.addr = m.addr

\* handle i names the worker shard i was sent to and the address shard i
\* reported
HandlesMatchShards(b) ==
    /\ Len(b.shards) = nshards(b)
    /\ \A i \in 0..(nshards(b) - 1) :
          /\ \E k \in DOMAIN BootEvents(b, "AssignDomain") :
                /\ BootEvents(b, "AssignDomain")[k].i = i
                /\ BootEvents(b, "AssignDomain")[k].to = b.shards[i + 1].worker
          /\ \E k \in DOMAIN BootEvents(b, "Booted") :
                /\ BootEvents(b, "Booted")[k].shard = i
                /\ BootEvents(b, "Booted")[k].addr = b.shards[i + 1].tx

\* C36: DomainHandle::new sends one AssignDomain for each shard index
\* 0..N-1, returns only when a Booted reply has been received from all N
\* shards, registers the address of each reply before it sends DomainBooted
\* with that address to every worker, and returns N shard handles, handle i
\* with the worker that was sent shard i and the address shard i reported.
C36_DomainBootProtocol ==
    /\ OneAssignPerShard(boot)
    /\ RegisteredBeforeBroadcast(boot)
    /\ boot.pc = "returned" =>
          /\ AllShardsBooted(boot)
          /\ EveryWorkerTold(boot)
          /\ HandlesMatchShards(boot)

\* a domain of several shards has been booted, its shards on different
\* workers, and the replies came in another order than the shards were sent
C36_Witness ==
    /\ boot.pc = "returned"
    /\ nshards(boot) > 1
    /\ \E i, j \in DOMAIN boot.shards : boot.shards[i].worker # boot.shards[j].worker
    /\ \E j, k \in DOMAIN BootEvents(boot, "Booted") :
          /\ j < k
          /\ BootEvents(boot, "Booted")[j].shard > BootEvents(boot, "Booted")[k].shard

====
